---- MODULE Spec2Model ----
(***************************************************************************)
(* Model of the protocol-translation core of codebuddy2api                 *)
(* (src/src/codebuddy_router.py): the SSE line parser, the tool-call       *)
(* remapper, the streaming translator with its retrying transport, and     *)
(* the non-streaming response aggregator.                                  *)
(*                                                                         *)
(* Text is modelled as a sequence of tokens, so that concatenation,        *)
(* prefix tests (startswith), slicing and substring tests ('[DONE]' in     *)
(* line) are computed the way the code computes them.  An absent / None /  *)
(* empty value is the empty sequence (or the empty string for atoms): the  *)
(* code tests all of them by truthiness.                                   *)
(***************************************************************************)
EXTENDS Integers, Sequences, FiniteSets, TLC

VARIABLES
    mode,                 \* "stream" | "nonstream": request_body.get("stream")
    pc,                   \* position of the request's handler
    attempt,              \* stream_with_retry: loop variable `attempt`
    received,             \* upstream lines read so far (all attempts)
    emitted,              \* everything yielded to the caller, in order
    tool_call_index_map,  \* stream_core: per-attempt id -> index map
    buffer,               \* stream_core: `buffer`, the text not yet split into lines
    data,                 \* StreamResponseAggregator.data
    tool_call_map,        \* StreamResponseAggregator.tool_call_map
    tool_call_order,      \* StreamResponseAggregator.tool_call_order
    current_tool_id,      \* StreamResponseAggregator.current_tool_id
    result,               \* what handle_non_stream_response returned
    http_client_pool,     \* module global _http_client_pool
    client_lock,          \* module global _client_lock
    getters,              \* the coroutines inside get_http_client
    constructed,          \* httpx.AsyncClient objects constructed so far
    closes,               \* aclose() calls so far
    pool,                 \* the credential pool (codebuddy_token_manager)
    requests,             \* the chat requests that ask the pool for a credential
    handed                \* what get_next_credential returned, call after call

requestVars == <<mode, pc, attempt, received, emitted, tool_call_index_map, buffer,
                 data, tool_call_map, tool_call_order, current_tool_id, result>>

clientVars == <<http_client_pool, client_lock, getters, constructed, closes>>

poolVars == <<pool, requests, handed>>

vars == <<requestVars, clientVars, poolVars>>

aggVars == <<data, tool_call_map, tool_call_order, current_tool_id>>

----------------------------------------------------------------------------
(* Bounds of the model *)

MaxLines == 3

MaxToolLines == 4

MaxRetryLines == 3

MaxRepairLines == 3

MaxAggLines == 3

MaxGetters == 3

MaxCloses == 1

MaxRequests == 4

MaxChunks == 4

MaxPoolRequests == 2

MaxCredentials == 3

(* Program constants *)

max_retries == 3

retry_delay == 1

----------------------------------------------------------------------------
(* Text *)

DONE == "[DONE]"

NoText == << >>

Contains(text, tok) == \E i \in 1..Len(text) : text[i] = tok

Last(s) == s[Len(s)]

RECURSIVE Flatten(_)
Flatten(ss) == IF ss = << >> THEN << >> ELSE Head(ss) \o Flatten(Tail(ss))

RECURSIVE Pow2(_)
Pow2(n) == IF n = 0 THEN 1 ELSE 2 * Pow2(n - 1)

SetMax(S) == CHOOSE x \in S : \A y \in S : y <= x

----------------------------------------------------------------------------
(* Wire data.  A tool-call fragment, a choice, a decoded chunk, a line. *)

ToolCall(id, args) ==
    [id |-> id, index |-> 0, type |-> "", name |-> "", arguments |-> args]

NoChoice == << >>

Choice(content, tcs, fin) ==
    [content |-> content, tool_calls |-> tcs, finish_reason |-> fin]

Chunk(id, model, fp, usage, choices) ==
    [id |-> id, model |-> model, system_fingerprint |-> fp,
     usage |-> usage, choices |-> choices]

EmptyObj == Chunk("", "", "", 0, NoChoice)

\* a line of wire text: a prefix, then either plain text or a JSON object
TextLine(prefix, text) ==
    [prefix |-> prefix, json |-> FALSE, text |-> text, chunk |-> EmptyObj]

JsonLine(prefix, chunk) ==
    [prefix |-> prefix, json |-> TRUE, text |-> NoText, chunk |-> chunk]

\* `not line.strip()`
IsBlank(line) == line.prefix = "" /\ ~line.json /\ line.text = NoText

\* `buffer.strip()`: a line that is a data line but for leading blanks
StripLine(line) == IF line.prefix = " data: " THEN [line EXCEPT !.prefix = "data: "] ELSE line

\* `line.startswith(':')`
IsComment(line) == line.prefix = ":"

\* `line.startswith('data: ')`
HasDataPrefix(line) == line.prefix = "data: "

ChunkContainsDone(chunk) ==
    \E c \in 1..Len(chunk.choices) :
        \/ Contains(chunk.choices[c].content, DONE)
        \/ \E t \in 1..Len(chunk.choices[c].tool_calls) :
               Contains(chunk.choices[c].tool_calls[t].arguments, DONE)

\* `'[DONE]' in line`
ContainsDone(line) ==
    IF line.json THEN ChunkContainsDone(line.chunk) ELSE Contains(line.text, DONE)

\* truthiness of a decoded object
Truthy(chunk) == chunk # EmptyObj

\* parse_sse_line: the decoded chunk, or None
None == [none |-> TRUE]

parse_sse_line(line) ==
    IF ~HasDataPrefix(line) THEN None
    ELSE IF ~line.json /\ (line.text = NoText \/ line.text = <<DONE>>) THEN None
    ELSE IF line.json THEN line.chunk
    ELSE None

Decodes(line) == parse_sse_line(line) # None /\ Truthy(parse_sse_line(line))

----------------------------------------------------------------------------
(* OpenAICompatibilityConverter *)

\* mutant: the prefix is added without testing for, or cutting, the vendor prefix
convert_tool_call_id_always_prefix(codebuddy_id) == <<"call_">> \o codebuddy_id

\* mutant: the slice after the vendor prefix starts one element late
convert_tool_call_id_late_slice(codebuddy_id) ==
    IF Len(codebuddy_id) > 0 /\ Head(codebuddy_id) = "tooluse_"
    THEN <<"call_">> \o Tail(Tail(codebuddy_id))
    ELSE codebuddy_id

convert_tool_call_id(codebuddy_id) ==
    IF Len(codebuddy_id) > 0 /\ Head(codebuddy_id) = "tooluse_"
    THEN <<"call_">> \o Tail(codebuddy_id)
    ELSE codebuddy_id

MapValues(m) == { m[k] : k \in DOMAIN m }

\* the index a fresh identifier reserves: len(tool_call_index_map)
NewIndex(m) == Cardinality(DOMAIN m)

\* the index a fragment without identifier gets: max(tool_call_index_map.values())
InheritedIndex(m) == SetMax(MapValues(m))

\* mutant: the `not in tool_call_index_map` test is missing
ConvertToolCall_always_allocate(tc, m) ==
    IF tc.id # NoText THEN
        LET m2 == [k \in DOMAIN m \cup {tc.id} |->
                     IF k = tc.id THEN Cardinality(DOMAIN m) ELSE m[k]]
        IN  [tc  |-> [tc EXCEPT !.id = convert_tool_call_id(tc.id),
                                !.index = m2[tc.id]],
             map |-> m2]
    ELSE IF DOMAIN m # {} THEN
        [tc |-> [tc EXCEPT !.index = SetMax({ m[k] : k \in DOMAIN m })], map |-> m]
    ELSE [tc |-> tc, map |-> m]

\* one iteration of `for tc in tool_calls`: the converted fragment and the map
ConvertToolCall(tc, m) ==
    IF tc.id # NoText THEN
        LET m2 == IF tc.id \in DOMAIN m THEN m
                  ELSE [k \in DOMAIN m \cup {tc.id} |->
                           IF k = tc.id THEN NewIndex(m) ELSE m[k]]
        IN  [tc  |-> [tc EXCEPT !.id = convert_tool_call_id(tc.id),
                                !.index = m2[tc.id]],
             map |-> m2]
    ELSE IF DOMAIN m # {} THEN
        [tc |-> [tc EXCEPT !.index = InheritedIndex(m)], map |-> m]
    ELSE [tc |-> tc, map |-> m]

RECURSIVE ConvertToolCalls(_, _)
ConvertToolCalls(tcs, m) ==
    IF tcs = << >> THEN [tcs |-> << >>, map |-> m]
    ELSE LET first == ConvertToolCall(Head(tcs), m)
             rest  == ConvertToolCalls(Tail(tcs), first.map)
         IN  [tcs |-> <<first.tc>> \o rest.tcs, map |-> rest.map]

\* returns the converted chunk and the updated tool_call_index_map
convert_sse_chunk_to_openai_format(chunk_data, m) ==
    IF chunk_data.choices = NoChoice THEN [chunk |-> chunk_data, map |-> m]
    ELSE IF chunk_data.choices[1].tool_calls = << >>
         THEN [chunk |-> chunk_data, map |-> m]
    ELSE LET conv == ConvertToolCalls(chunk_data.choices[1].tool_calls, m)
         IN  [chunk |-> [chunk_data EXCEPT !.choices[1].tool_calls = conv.tcs],
              map |-> conv.map]

----------------------------------------------------------------------------
(* JSON text, as json.loads / json.dumps treat it, over characters.  A      *)
(* character is a one-character string; the model's texts use the          *)
(* characters { } [ ] " : , space, the digits 1 2 and the letters a b N.   *)
(* json.loads is Python's decoder: besides the JSON grammar it accepts the *)
(* constants NaN, Infinity and -Infinity (parse_constant), and json.dumps  *)
(* writes them back (allow_nan); NaN stands for the three of them.         *)

Digits == {"1", "2"}

NaN == <<"N", "a", "N">>

StartsWith(s, p) == Len(s) >= Len(p) /\ SubSeq(s, 1, Len(p)) = p

NoVal == [t |-> "none"]

Fail == [ok |-> FALSE, val |-> NoVal, rest |-> << >>]

Ok(val, rest) == [ok |-> TRUE, val |-> val, rest |-> rest]

RECURSIVE SkipWs(_)
SkipWs(s) == IF s # << >> /\ s[1] = " " THEN SkipWs(Tail(s)) ELSE s

RECURSIVE StripRight(_)
StripRight(s) ==
    IF s # << >> /\ s[Len(s)] = " " THEN StripRight(SubSeq(s, 1, Len(s) - 1)) ELSE s

\* str.strip()
Strip(s) == StripRight(SkipWs(s))

\* s[1] is the opening quote; the string ends at the next quote
ParseString(s) ==
    LET closers == { j \in 2..Len(s) : s[j] = "\"" }
    IN  IF closers = {} THEN Fail
        ELSE LET j == CHOOSE x \in closers : \A y \in closers : x <= y
             IN  Ok([t |-> "str", s |-> SubSeq(s, 2, j - 1)], SubSeq(s, j + 1, Len(s)))

RECURSIVE DigitRun(_)
DigitRun(s) == IF s # << >> /\ s[1] \in Digits THEN 1 + DigitRun(Tail(s)) ELSE 0

ParseNumber(s) ==
    LET n == DigitRun(s)
    IN  Ok([t |-> "num", s |-> SubSeq(s, 1, n)], SubSeq(s, n + 1, Len(s)))

\* dict assignment: a key already present keeps its place and takes the new value
PutMember(members, k, v) ==
    IF \E i \in 1..Len(members) : members[i].k = k
    THEN [i \in 1..Len(members) |->
             IF members[i].k = k THEN [k |-> k, v |-> v] ELSE members[i]]
    ELSE Append(members, [k |-> k, v |-> v])

RECURSIVE ParseValue(_), ParseMembers(_, _), ParseItems(_, _)

ParseValue(s) ==
    IF s = << >> THEN Fail
    ELSE IF s[1] = "\"" THEN ParseString(s)
    ELSE IF s[1] \in Digits THEN ParseNumber(s)
    ELSE IF s[1] = "{" THEN
        LET r == SkipWs(Tail(s))
        IN  IF r # << >> /\ r[1] = "}"
            THEN Ok([t |-> "obj", members |-> << >>], Tail(r))
            ELSE ParseMembers(r, << >>)
    ELSE IF s[1] = "[" THEN
        LET r == SkipWs(Tail(s))
        IN  IF r # << >> /\ r[1] = "]"
            THEN Ok([t |-> "arr", items |-> << >>], Tail(r))
            ELSE ParseItems(r, << >>)
    ELSE IF StartsWith(s, NaN) THEN Ok([t |-> "nan"], SubSeq(s, Len(NaN) + 1, Len(s)))
    ELSE Fail

ParseMembers(s, acc) ==
    IF s = << >> \/ s[1] # "\"" THEN Fail
    ELSE LET k == ParseString(s) IN
    IF ~k.ok THEN Fail
    ELSE LET a == SkipWs(k.rest) IN
    IF a = << >> \/ a[1] # ":" THEN Fail
    ELSE LET v == ParseValue(SkipWs(Tail(a))) IN
    IF ~v.ok THEN Fail
    ELSE LET b    == SkipWs(v.rest)
             acc2 == PutMember(acc, k.val.s, v.val) IN
    IF b = << >> THEN Fail
    ELSE IF b[1] = "}" THEN Ok([t |-> "obj", members |-> acc2], Tail(b))
    ELSE IF b[1] = "," THEN ParseMembers(SkipWs(Tail(b)), acc2)
    ELSE Fail

ParseItems(s, acc) ==
    LET v == ParseValue(s) IN
    IF ~v.ok THEN Fail
    ELSE LET b    == SkipWs(v.rest)
             acc2 == Append(acc, v.val) IN
    IF b = << >> THEN Fail
    ELSE IF b[1] = "]" THEN Ok([t |-> "arr", items |-> acc2], Tail(b))
    ELSE IF b[1] = "," THEN ParseItems(SkipWs(Tail(b)), acc2)
    ELSE Fail

\* json.loads(text): ok is FALSE where the code catches JSONDecodeError
json_loads(text) ==
    LET v == ParseValue(SkipWs(text))
    IN  IF v.ok /\ SkipWs(v.rest) = << >> THEN Ok(v.val, << >>) ELSE Fail

RECURSIVE json_dumps(_), DumpMembers(_), DumpItems(_)

\* json.dumps(value, ensure_ascii=False): separators ", " and ": "
json_dumps(val) ==
    IF val.t = "str" THEN <<"\"">> \o val.s \o <<"\"">>
    ELSE IF val.t = "num" THEN val.s
    ELSE IF val.t = "nan" THEN NaN
    ELSE IF val.t = "obj" THEN <<"{">> \o DumpMembers(val.members) \o <<"}">>
    ELSE <<"[">> \o DumpItems(val.items) \o <<"]">>

DumpMembers(ms) ==
    IF ms = << >> THEN << >>
    ELSE <<"\"">> \o ms[1].k \o <<"\"", ":", " ">> \o json_dumps(ms[1].v)
         \o (IF Len(ms) > 1 THEN <<",", " ">> \o DumpMembers(Tail(ms)) ELSE << >>)

DumpItems(is) ==
    IF is = << >> THEN << >>
    ELSE json_dumps(is[1])
         \o (IF Len(is) > 1 THEN <<",", " ">> \o DumpItems(Tail(is)) ELSE << >>)

----------------------------------------------------------------------------
(* validate_and_fix_tool_call_args *)

Count(s, c) == Cardinality({ i \in 1..Len(s) : s[i] = c })

\* args.count('}{')
CountCloseOpen(s) ==
    Cardinality({ i \in 1..(Len(s) - 1) : s[i] = "}" /\ s[i + 1] = "{" })

\* the character loop: st = [cur: current_obj, depth: brace_count, objs: json_objects]
ScanStep(st, char) ==
    LET cur == Append(st.cur, char) IN
    IF char = "{" THEN [st EXCEPT !.cur = cur, !.depth = st.depth + 1]
    ELSE IF char = "}" THEN
        IF st.depth - 1 = 0 /\ Strip(cur) # << >>
        THEN LET parsed == json_loads(Strip(cur))
             IN  [cur   |-> << >>,
                  depth |-> 0,
                  objs  |-> IF parsed.ok THEN Append(st.objs, parsed.val) ELSE st.objs]
        ELSE [st EXCEPT !.cur = cur, !.depth = st.depth - 1]
    ELSE [st EXCEPT !.cur = cur]

RECURSIVE Scan(_, _)
Scan(st, s) == IF s = << >> THEN st ELSE Scan(ScanStep(st, Head(s)), Tail(s))

SplitObjects(args) == Scan([cur |-> << >>, depth |-> 0, objs |-> << >>], args).objs

\* "append the missing closer"
EndsWith(s, c) == s # << >> /\ Last(s) = c

AppendCloser(args) ==
    IF ~EndsWith(args, "}") /\ Count(args, "{") > Count(args, "}") THEN Append(args, "}")
    ELSE IF ~EndsWith(args, "]") /\ Count(args, "[") > Count(args, "]") THEN Append(args, "]")
    ELSE args

\* mutant: the text with its closer appended is returned without the
\* second json.loads
FirstValid_unchecked(ok1, v1, ok2, v2) == IF ok1 THEN v1 ELSE v2

\* the first of v1, v2 that json.loads accepts, else '{}'
FirstValid(ok1, v1, ok2, v2) ==
    IF ok1 THEN v1 ELSE IF ok2 THEN v2 ELSE <<"{", "}">>

\* "the original repair logic": the text itself, or with its closer appended
FixSingle(args, closed) ==
    FirstValid(json_loads(args).ok, args, json_loads(closed).ok, closed)

\* mutant: the last object that parsed is kept, not the first
DumpFirstOr_last(json_objects, otherwise) ==
    IF json_objects # << >> THEN json_dumps(Last(json_objects)) ELSE otherwise

\* `if json_objects: return json.dumps(json_objects[0])`, else fall through
DumpFirstOr(json_objects, otherwise) ==
    IF json_objects # << >> THEN json_dumps(json_objects[1]) ELSE otherwise

FixStripped(args) ==
    DumpFirstOr(IF CountCloseOpen(args) > 0 THEN SplitObjects(args) ELSE << >>,
                FixSingle(args, AppendCloser(args)))

validate_and_fix_tool_call_args(args) ==
    IF args = << >> THEN <<"{", "}">> ELSE FixStripped(Strip(args))

----------------------------------------------------------------------------
(* StreamResponseAggregator.  An aggregator is the record of its fields;   *)
(* the operators return the aggregator after the call.                     *)

NoId == << >>

NewAggregator ==
    [data |-> [id |-> "", model |-> "", content |-> NoText, tool_calls |-> << >>,
               finish_reason |-> "", usage |-> 0, system_fingerprint |-> ""],
     tool_call_map    |-> << >>,
     tool_call_order  |-> << >>,
     current_tool_id  |-> NoId]

\* `a or b` on values whose falsy form is `empty`
OrElse(a, b, empty) == IF a # empty THEN a ELSE b

NewEntry(tc) ==
    [id |-> tc.id, type |-> OrElse(tc.type, "function", ""),
     name |-> "", arguments |-> NoText]

\* the updates both branches make to the entry of tool call `id`
FoldFragment(entry, tc, withType) ==
    [entry EXCEPT
       !.type = IF withType /\ tc.type # "" THEN tc.type ELSE @,
       !.name = IF tc.name # "" THEN tc.name ELSE @,
       !.arguments = IF tc.arguments # NoText THEN @ \o tc.arguments ELSE @]

\* mutant: fragments without identifier are folded into the first entry,
\* as if the calls were keyed by the vendor's index (always 0)
process_tool_call_first_entry(agg, tc) ==
    IF tc.id # NoId THEN
        LET known == tc.id \in DOMAIN agg.tool_call_map
            entry == IF known THEN agg.tool_call_map[tc.id] ELSE NewEntry(tc)
        IN  [agg EXCEPT
               !.tool_call_map =
                   [k \in DOMAIN agg.tool_call_map \cup {tc.id} |->
                       IF k = tc.id THEN FoldFragment(entry, tc, TRUE)
                       ELSE agg.tool_call_map[k]],
               !.tool_call_order = IF known THEN @ ELSE Append(@, tc.id),
               !.current_tool_id = tc.id]
    ELSE IF agg.tool_call_order # << >> THEN
        [agg EXCEPT !.tool_call_map[agg.tool_call_order[1]] = FoldFragment(@, tc, FALSE)]
    ELSE agg

\* one iteration of `for tc in tool_calls` of _process_tool_calls
process_tool_call(agg, tc) ==
    IF tc.id # NoId THEN
        LET known == tc.id \in DOMAIN agg.tool_call_map
            entry == IF known THEN agg.tool_call_map[tc.id] ELSE NewEntry(tc)
        IN  [agg EXCEPT
               !.tool_call_map =
                   [k \in DOMAIN agg.tool_call_map \cup {tc.id} |->
                       IF k = tc.id THEN FoldFragment(entry, tc, TRUE)
                       ELSE agg.tool_call_map[k]],
               !.tool_call_order = IF known THEN @ ELSE Append(@, tc.id),
               !.current_tool_id = tc.id]
    ELSE IF agg.current_tool_id # NoId
            /\ agg.current_tool_id \in DOMAIN agg.tool_call_map THEN
        [agg EXCEPT !.tool_call_map[agg.current_tool_id] = FoldFragment(@, tc, FALSE)]
    ELSE agg

RECURSIVE process_tool_calls(_, _)
process_tool_calls(agg, tool_calls) ==
    IF tool_calls = << >> THEN agg
    ELSE process_tool_calls(process_tool_call(agg, Head(tool_calls)), Tail(tool_calls))

\* the part of process_chunk before `choices = obj.get('choices', [])`
MergeBasics(d, obj) ==
    [d EXCEPT
       !.id = OrElse(@, obj.id, ""),
       !.model = OrElse(@, obj.model, ""),
       !.system_fingerprint = OrElse(obj.system_fingerprint, @, ""),
       !.usage = IF obj.usage # 0 THEN obj.usage ELSE @]

process_chunk(agg, obj) ==
    LET a1 == [agg EXCEPT !.data = MergeBasics(@, obj)] IN
    IF obj.choices = NoChoice THEN a1
    ELSE LET choice == obj.choices[1]
             a2 == [a1 EXCEPT
                      !.data.finish_reason =
                          IF choice.finish_reason # "" THEN choice.finish_reason ELSE @,
                      !.data.content =
                          IF choice.content # NoText THEN @ \o choice.content ELSE @]
         IN  IF choice.tool_calls # << >>
             THEN process_tool_calls(a2, choice.tool_calls)
             ELSE a2

\* finalize repairs the arguments of every accumulated call, in place
RepairedMap(m) ==
    [k \in DOMAIN m |-> [m[k] EXCEPT !.arguments = validate_and_fix_tool_call_args(@)]]

NoResponse == [status |-> 0]

\* mutant: a finish reason the vendor reported is kept when tool calls exist
FinalizeWith_vendor_first(agg, fixed) ==
    LET tcs == IF DOMAIN fixed # {}
               THEN [i \in 1..Len(agg.tool_call_order) |-> fixed[agg.tool_call_order[i]]]
               ELSE agg.data.tool_calls
        after == [agg EXCEPT !.data.tool_calls = tcs, !.tool_call_map = fixed]
        response ==
            [status |-> 200,
             id |-> OrElse(agg.data.id, "uuid4", ""),
             model |-> OrElse(agg.data.model, "unknown", ""),
             message |-> [role |-> "assistant", content |-> agg.data.content,
                          tool_calls |-> tcs],
             finish_reason |-> OrElse(agg.data.finish_reason,
                                      IF tcs # << >> THEN "tool_calls" ELSE "stop", ""),
             usage |-> agg.data.usage,
             system_fingerprint |-> agg.data.system_fingerprint]
    IN  [agg |-> after, response |-> response]

\* finalize, given the repaired tool_call_map
FinalizeWith(agg, fixed) ==
    LET tcs == IF DOMAIN fixed # {}
               THEN [i \in 1..Len(agg.tool_call_order) |-> fixed[agg.tool_call_order[i]]]
               ELSE agg.data.tool_calls
        after == [agg EXCEPT !.data.tool_calls = tcs, !.tool_call_map = fixed]
        response ==
            [status |-> 200,
             id |-> OrElse(agg.data.id, "uuid4", ""),
             model |-> OrElse(agg.data.model, "unknown", ""),
             message |-> [role |-> "assistant", content |-> agg.data.content,
                          tool_calls |-> tcs],
             finish_reason |-> IF tcs # << >> THEN "tool_calls"
                               ELSE OrElse(agg.data.finish_reason, "stop", ""),
             usage |-> agg.data.usage,
             system_fingerprint |-> agg.data.system_fingerprint]
    IN  [agg |-> after, response |-> response]

finalize(agg) == FinalizeWith(agg, RepairedMap(agg.tool_call_map))

\* what the loop of handle_non_stream_response does with one line
AggregateLine(agg, line) ==
    IF Decodes(line) THEN process_chunk(agg, parse_sse_line(line)) ELSE agg

RECURSIVE AggregateLines(_, _)
AggregateLines(agg, lines) ==
    IF lines = << >> THEN agg
    ELSE AggregateLines(AggregateLine(agg, Head(lines)), Tail(lines))

----------------------------------------------------------------------------
(* What the caller of a streaming request receives *)

\* `yield line + '\n'`: the upstream line, verbatim
Raw(line, src) ==
    [kind |-> "raw", line |-> line, chunk |-> EmptyObj, etype |-> "", wait |-> 0,
     src |-> src, attempt |-> attempt]

\* `yield "data: " + json.dumps(converted_chunk) + '\n'`
Data(chunk, src) ==
    [kind |-> "data", line |-> TextLine("", NoText), chunk |-> chunk, etype |-> "",
     wait |-> 0, src |-> src, attempt |-> attempt]

\* `yield format_sse_error(message, error_type)`
Event(etype, wait) ==
    [kind |-> "event", line |-> TextLine("", NoText), chunk |-> EmptyObj,
     etype |-> etype, wait |-> wait, src |-> 0, attempt |-> attempt]

\* an upstream line as read by the handler
Read(line, tail) == [line |-> line, attempt |-> attempt, tail |-> tail]

NoMap == << >>

----------------------------------------------------------------------------
(* The shared upstream connection pool: get_http_client, close_http_client. *)
(* A client object is the number of its construction; 0 is None.  A         *)
(* coroutine is suspended only at an await: get_http_client at              *)
(* `async with _client_lock`, close_http_client also at `await aclose()`.   *)

NoClient == 0

Getters == 1..MaxGetters

InitClient ==
    /\ http_client_pool = NoClient
    /\ client_lock = "free"
    /\ getters = [g \in Getters |-> [pc |-> "idle", got |-> NoClient]]
    /\ constructed = 0
    /\ closes = 0

\* `if _http_client_pool is None` is false: `return _http_client_pool`
GetClientFast(g) ==
    /\ getters[g].pc = "idle"
    /\ http_client_pool # NoClient
    /\ getters' = [getters EXCEPT ![g] = [pc |-> "done", got |-> http_client_pool]]
    /\ UNCHANGED <<requestVars, poolVars, http_client_pool, client_lock, constructed, closes>>

\* the first check finds None: on to `async with _client_lock`
GetClientWait(g) ==
    /\ getters[g].pc = "idle"
    /\ http_client_pool = NoClient
    /\ getters' = [getters EXCEPT ![g].pc = "waiting"]
    /\ UNCHANGED <<requestVars, poolVars, http_client_pool, client_lock, constructed, closes>>

\* mutant: no second check under the lock
GetClientLocked_no_recheck(g) ==
    /\ getters[g].pc = "waiting"
    /\ client_lock = "free"
    /\ constructed' = constructed + 1
    /\ http_client_pool' = constructed + 1
    /\ getters' = [getters EXCEPT ![g] = [pc |-> "done", got |-> constructed + 1]]
    /\ UNCHANGED <<requestVars, poolVars, client_lock, closes>>

\* the lock is acquired; second check, construction if still None, release
\* and return, with no await in between
GetClientLocked(g) ==
    /\ getters[g].pc = "waiting"
    /\ client_lock = "free"
    /\ LET make == http_client_pool = NoClient
           client == IF make THEN constructed + 1 ELSE http_client_pool
       IN  /\ constructed' = IF make THEN constructed + 1 ELSE constructed
           /\ http_client_pool' = client
           /\ getters' = [getters EXCEPT ![g] = [pc |-> "done", got |-> client]]
    /\ UNCHANGED <<requestVars, poolVars, client_lock, closes>>

\* close_http_client: the lock is taken and `await _http_client_pool.aclose()` begun
CloseStart ==
    /\ client_lock = "free"
    /\ http_client_pool # NoClient
    /\ closes < MaxCloses
    /\ client_lock' = "closing"
    /\ closes' = closes + 1
    /\ UNCHANGED <<requestVars, poolVars, http_client_pool, getters, constructed>>

\* aclose() returns: `_http_client_pool = None`, the lock is released
CloseDone ==
    /\ client_lock = "closing"
    /\ http_client_pool' = NoClient
    /\ client_lock' = "free"
    /\ UNCHANGED <<requestVars, poolVars, getters, constructed, closes>>

----------------------------------------------------------------------------
(* The credential pool.  codebuddy_token_manager is imported by the router *)
(* but is not part of the sources at hand: the pool is modelled from       *)
(* section 4.1 and section 3 of the specification, under the names the     *)
(* router calls it by.  The cursor counts from 0.                          *)

Credential(name, bearer, expired) ==
    [name |-> name, bearer_token |-> bearer, expired |-> expired, pinned |-> FALSE]

\* validity: a bearer value is present and the expiry is not reached
Usable(c) == c.bearer_token /\ ~c.expired

\* the credential at position i, positions counted from 0
At(P, i) == P.credentials[i + 1]

Positions(P) == 0..(Len(P.credentials) - 1)

Pinned(P) == { i \in Positions(P) : At(P, i).pinned }

\* the first usable position at or after the cursor, going round
FirstUsableFrom(P) ==
    LET n == Len(P.credentials)
        k == CHOOSE d \in 0..(n - 1) :
                 /\ Usable(At(P, (P.cursor + d) % n))
                 /\ \A e \in 0..(d - 1) : ~Usable(At(P, (P.cursor + e) % n))
    IN  (P.cursor + k) % n

\* advance(): the cursor moves on once the batch is used up
Advanced(P, i) ==
    IF (IF i = P.cursor THEN P.used ELSE 0) + 1 >= P.batch
    THEN [P EXCEPT !.cursor = (i + 1) % Len(P.credentials), !.used = 0]
    ELSE [P EXCEPT !.cursor = i, !.used = (IF i = P.cursor THEN P.used ELSE 0) + 1]

\* next() that honours the pin only while automatic rotation is off
get_next_credential_rotating(P) ==
    IF \A i \in Positions(P) : ~Usable(At(P, i)) THEN [pool |-> P, credential |-> None]
    ELSE IF ~P.auto /\ \E i \in Pinned(P) : Usable(At(P, i))
        THEN [pool |-> P, credential |-> At(P, CHOOSE i \in Pinned(P) : Usable(At(P, i)))]
    ELSE [pool |-> IF P.auto THEN Advanced(P, FirstUsableFrom(P)) ELSE P,
          credential |-> At(P, FirstUsableFrom(P))]

\* next(): [pool: the pool after the call, credential: the credential or None]
get_next_credential(P) ==
    IF \A i \in Positions(P) : ~Usable(At(P, i)) THEN [pool |-> P, credential |-> None]
    ELSE IF \E i \in Pinned(P) : Usable(At(P, i))
        THEN [pool |-> P, credential |-> At(P, CHOOSE i \in Pinned(P) : Usable(At(P, i)))]
    ELSE [pool |-> IF P.auto /\ Pinned(P) = {} THEN Advanced(P, FirstUsableFrom(P)) ELSE P,
          credential |-> At(P, FirstUsableFrom(P))]

\* select(index) that leaves the earlier pin in place
set_manual_credential_adds(P, index) ==
    IF index \in Positions(P)
    THEN [pool |-> [P EXCEPT !.credentials[index + 1].pinned = TRUE], ok |-> TRUE]
    ELSE [pool |-> P, ok |-> FALSE]

\* select(index): [pool, ok]; ok is FALSE for IndexOutOfRange
set_manual_credential(P, index) ==
    IF index \in Positions(P)
    THEN [pool |-> [P EXCEPT !.credentials =
                       [k \in DOMAIN @ |-> [@[k] EXCEPT !.pinned = (k = index + 1)]]],
          ok |-> TRUE]
    ELSE [pool |-> P, ok |-> FALSE]

\* clearPin()
clear_manual_selection(P) ==
    [P EXCEPT !.credentials = [k \in DOMAIN @ |-> [@[k] EXCEPT !.pinned = FALSE]]]

\* toggleAutoRotation()
toggle_auto_rotation(P) == [P EXCEPT !.auto = ~@]

\* an addition: the new credential goes to the end of the list
add_credential(P, c) == [P EXCEPT !.credentials = Append(@, c)]

\* a removal that leaves the cursor where it was
delete_credential_by_index_cursor_kept(P, index) ==
    IF index \in Positions(P)
    THEN [pool |-> [P EXCEPT !.credentials =
                       [k \in 1..(Len(P.credentials) - 1) |->
                           IF k <= index THEN P.credentials[k] ELSE P.credentials[k + 1]]],
          ok |-> TRUE]
    ELSE [pool |-> P, ok |-> FALSE]

\* a removal: the cursor stays a position of the list
delete_credential_by_index(P, index) ==
    IF index \in Positions(P)
    THEN LET left == [k \in 1..(Len(P.credentials) - 1) |->
                         IF k <= index THEN P.credentials[k] ELSE P.credentials[k + 1]]
         IN  [pool |-> [P EXCEPT !.credentials = left,
                                 !.cursor = IF @ < Len(left) THEN @ ELSE 0,
                                 !.used = 0],
              ok |-> TRUE]
    ELSE [pool |-> P, ok |-> FALSE]

\* time passes: the expiry of the credential at position i is reached
Expired(P, i) == [P EXCEPT !.credentials[i + 1].expired = TRUE]

Requests == 1..MaxRequests

NoPool == [credentials |-> << >>, cursor |-> 0, used |-> 0, auto |-> TRUE, batch |-> 1]

NoRequests == [r \in Requests |-> [pc |-> "start", credential |-> "", status |-> 0]]

\* what a call of next() handed out: the credential's name, and whether the
\* credential was usable then
Handed(credential) ==
    IF credential = None THEN [name |-> "", usable |-> FALSE]
    ELSE [name |-> credential.name, usable |-> Usable(credential)]

----------------------------------------------------------------------------
(* The request *)

InitRequest ==
    /\ mode \in {"stream", "nonstream"}
    /\ pc = "open"
    /\ attempt = 0
    /\ received = << >>
    /\ emitted = << >>
    /\ tool_call_index_map = NoMap
    /\ buffer = NoText
    /\ data = NewAggregator.data
    /\ tool_call_map = NewAggregator.tool_call_map
    /\ tool_call_order = NewAggregator.tool_call_order
    /\ current_tool_id = NewAggregator.current_tool_id
    /\ result = NoResponse

Init ==
    /\ InitRequest
    /\ InitClient
    /\ pool = NoPool
    /\ requests = NoRequests
    /\ handed = << >>

Aggregator ==
    [data |-> data, tool_call_map |-> tool_call_map,
     tool_call_order |-> tool_call_order, current_tool_id |-> current_tool_id]

SetAggregator(agg) ==
    /\ data' = agg.data
    /\ tool_call_map' = agg.tool_call_map
    /\ tool_call_order' = agg.tool_call_order
    /\ current_tool_id' = agg.current_tool_id

\* `return aggregator.finalize()`
Return(f) == SetAggregator(f.agg) /\ result' = f.response

(* handle_stream_response.stream_core *)

\* client.stream(...) answered 200: `buffer = ""`, `tool_call_index_map = {}`
StreamOpen ==
    /\ mode = "stream" /\ pc = "open"
    /\ pc' = "reading"
    /\ tool_call_index_map' = NoMap
    /\ buffer' = NoText
    /\ UNCHANGED <<clientVars, poolVars, mode, attempt, received, emitted, aggVars, result>>

\* a slip: the upstream answer is raised as a transport failure would be
StreamOpenError_retried ==
    /\ mode = "stream" /\ pc = "open"
    /\ emitted' = Append(emitted, Event("api_error", 0))
    /\ pc' = IF attempt < max_retries THEN "backoff" ELSE "failed"
    /\ UNCHANGED <<clientVars, poolVars, buffer, mode, attempt, received, tool_call_index_map, aggVars, result>>

\* response.status_code != 200: one api_error event, then `return`
StreamOpenError ==
    /\ mode = "stream" /\ pc = "open"
    /\ emitted' = Append(emitted, Event("api_error", 0))
    /\ pc' = "done"
    /\ UNCHANGED <<clientVars, poolVars, buffer, mode, attempt, received, tool_call_index_map, aggVars, result>>

\* mutant: the terminator is forwarded but the generator does not return
TranslateLine_no_stop(line, m, src) ==
    IF IsBlank(line) \/ IsComment(line) THEN [out |-> << >>, map |-> m, stop |-> FALSE]
    ELSE IF ContainsDone(line) THEN [out |-> <<Raw(line, src)>>, map |-> m, stop |-> FALSE]
    ELSE IF Decodes(line) THEN
        LET conv == convert_sse_chunk_to_openai_format(parse_sse_line(line), m)
        IN  [out |-> <<Data(conv.chunk, src)>>, map |-> conv.map, stop |-> FALSE]
    ELSE [out |-> <<Raw(line, src)>>, map |-> m, stop |-> FALSE]

\* mutant: every line that is not a data line is skipped, not only blanks and comments
TranslateLine_skip_non_data(line, m, src) ==
    IF ~HasDataPrefix(line) THEN [out |-> << >>, map |-> m, stop |-> FALSE]
    ELSE IF ContainsDone(line) THEN [out |-> <<Raw(line, src)>>, map |-> m, stop |-> TRUE]
    ELSE IF Decodes(line) THEN
        LET conv == convert_sse_chunk_to_openai_format(parse_sse_line(line), m)
        IN  [out |-> <<Data(conv.chunk, src)>>, map |-> conv.map, stop |-> FALSE]
    ELSE [out |-> <<Raw(line, src)>>, map |-> m, stop |-> FALSE]

\* what one complete line (`line, buffer = buffer.split('\n', 1)`) makes the
\* generator do: [out: the lines yielded, map: the index map, stop: `return`]
TranslateLine(line, m, src) ==
    IF IsBlank(line) \/ IsComment(line) THEN [out |-> << >>, map |-> m, stop |-> FALSE]
    ELSE IF ContainsDone(line) THEN [out |-> <<Raw(line, src)>>, map |-> m, stop |-> TRUE]
    ELSE IF Decodes(line) THEN
        LET conv == convert_sse_chunk_to_openai_format(parse_sse_line(line), m)
        IN  [out |-> <<Data(conv.chunk, src)>>, map |-> conv.map, stop |-> FALSE]
    ELSE [out |-> <<Raw(line, src)>>, map |-> m, stop |-> FALSE]

\* what is left in `buffer` when the upstream ends: `if buffer.strip(): ...`
TranslateTail(line, m, src) ==
    IF IsBlank(line) THEN [out |-> << >>, map |-> m, stop |-> TRUE]
    ELSE IF Decodes(StripLine(line)) THEN
        LET conv == convert_sse_chunk_to_openai_format(parse_sse_line(StripLine(line)), m)
        IN  [out |-> <<Data(conv.chunk, src)>>, map |-> conv.map, stop |-> TRUE]
    ELSE [out |-> <<Raw(line, src)>>, map |-> m, stop |-> TRUE]

\* mutant: what is yielded reaches the caller ahead of what it already has
Yield_in_front(out) == out \o emitted

\* the yields are appended to what the caller has, in the order they are made
Yield(out) == emitted \o out

StreamLine(line, max) ==
    /\ mode = "stream" /\ pc = "reading"
    /\ Len(received) < max
    /\ LET t == TranslateLine(line, tool_call_index_map, Len(received) + 1)
       IN  /\ emitted' = Yield(t.out)
           /\ tool_call_index_map' = t.map
           /\ pc' = IF t.stop THEN "done" ELSE "reading"
    /\ received' = Append(received, Read(line, FALSE))
    /\ UNCHANGED <<clientVars, poolVars, buffer, mode, attempt, aggVars, result>>

\* the upstream ends with an unterminated last line in `buffer`
StreamTail(line, max) ==
    /\ mode = "stream" /\ pc = "reading"
    /\ Len(received) < max
    /\ LET t == TranslateTail(line, tool_call_index_map, Len(received) + 1)
       IN  /\ emitted' = Yield(t.out)
           /\ tool_call_index_map' = t.map
    /\ pc' = "done"
    /\ received' = Append(received, Read(line, TRUE))
    /\ UNCHANGED <<clientVars, poolVars, buffer, mode, attempt, aggVars, result>>

\* the upstream ends with `buffer` empty
StreamEnd ==
    /\ mode = "stream" /\ pc = "reading"
    /\ pc' = "done"
    /\ UNCHANGED <<clientVars, poolVars, buffer, mode, attempt, received, emitted, tool_call_index_map, aggVars, result>>

(* stream_core, read by read.  The text of the upstream body is a sequence *)
(* of tokens: the line feed, the data prefix, the JSON text of one chunk,   *)
(* the terminator payload, the colon a comment starts with; a network read  *)
(* (`async for chunk in response.aiter_text`) brings some of them, and may  *)
(* end anywhere.                                                            *)

NL == "\n"

ChunkA == "{a}"

\* the line a run of tokens between two line feeds is
AsLine(tokens) ==
    IF tokens = NoText THEN TextLine("", NoText)
    ELSE IF tokens = <<"data: ", ChunkA>>
        THEN JsonLine("data: ", Chunk("r1", "m1", "", 0, <<Choice(<<"a">>, << >>, "")>>))
    ELSE IF Head(tokens) \in {"data: ", ":"} THEN TextLine(Head(tokens), Tail(tokens))
    ELSE TextLine("", tokens)

\* the generator between two reads: [buffer, map, out: what it has yielded,
\* stop: it has returned, lines: the lines split off so far]
Core(buf, m, out, stop, lines) ==
    [buffer |-> buf, map |-> m, out |-> out, stop |-> stop, lines |-> lines]

FirstNL(text) == CHOOSE k \in 1..Len(text) : text[k] = NL /\ \A j \in 1..(k - 1) : text[j] # NL

\* a slip: `if '\n' in buffer` for `while`: one line is split off per read
RECURSIVE DrainLines_once(_)
DrainLines_once(S) ==
    IF S.stop \/ ~Contains(S.buffer, NL) THEN S
    ELSE LET k == FirstNL(S.buffer)
             t == TranslateLine(AsLine(SubSeq(S.buffer, 1, k - 1)), S.map, S.lines + 1)
         IN  Core(SubSeq(S.buffer, k + 1, Len(S.buffer)), t.map, S.out \o t.out, t.stop,
                  S.lines + 1)

\* `while '\n' in buffer: line, buffer = buffer.split('\n', 1) ...`
RECURSIVE DrainLines(_)
DrainLines(S) ==
    IF S.stop \/ ~Contains(S.buffer, NL) THEN S
    ELSE LET k == FirstNL(S.buffer)
             t == TranslateLine(AsLine(SubSeq(S.buffer, 1, k - 1)), S.map, S.lines + 1)
         IN  DrainLines(Core(SubSeq(S.buffer, k + 1, Len(S.buffer)), t.map, S.out \o t.out,
                             t.stop, S.lines + 1))

\* one turn of `async for chunk in response.aiter_text(...)`
FeedChunk(S, chunk) ==
    IF chunk = NoText THEN S ELSE DrainLines([S EXCEPT !.buffer = @ \o chunk])

\* after the loop: `if buffer.strip(): ...`
EndOfBody(S) ==
    LET t == TranslateTail(AsLine(S.buffer), S.map, S.lines + 1)
    IN  Core(S.buffer, t.map, S.out \o t.out, TRUE, S.lines)

ReadChunk(chunk) == [chunk |-> chunk, attempt |-> attempt]

ReceivedText == Flatten([k \in 1..Len(received) |-> received[k].chunk])

\* the lines split off the text read so far
LinesRead == Count(ReceivedText, NL) - Count(buffer, NL)

StreamChunk(chunk, max) ==
    /\ mode = "stream" /\ pc = "reading"
    /\ Len(received) < max
    /\ LET S == FeedChunk(Core(buffer, tool_call_index_map, << >>, FALSE, LinesRead), chunk)
       IN  /\ emitted' = Yield(S.out)
           /\ tool_call_index_map' = S.map
           /\ buffer' = S.buffer
           /\ pc' = IF S.stop THEN "done" ELSE "reading"
    /\ received' = Append(received, ReadChunk(chunk))
    /\ UNCHANGED <<clientVars, poolVars, mode, attempt, aggVars, result>>

\* the upstream body ends
StreamBodyEnd ==
    /\ mode = "stream" /\ pc = "reading"
    /\ LET S == EndOfBody(Core(buffer, tool_call_index_map, << >>, FALSE, LinesRead))
       IN  /\ emitted' = Yield(S.out)
           /\ tool_call_index_map' = S.map
    /\ pc' = "done"
    /\ UNCHANGED <<clientVars, poolVars, buffer, mode, attempt, received, aggVars, result>>

(* SSEConnectionManager.stream_with_retry *)

\* mutant: the wait grows by the base delay each attempt instead of doubling
WaitTime_linear(n) == retry_delay * (n + 1)

WaitTime(n) == retry_delay * Pow2(n)

\* mutant: `attempt <= self.max_retries`, one retry too many
TransientFailure_one_more ==
    /\ mode = "stream" /\ pc \in {"open", "reading"}
    /\ IF attempt <= max_retries
       THEN /\ emitted' = Append(emitted, Event("connection_retry", WaitTime(attempt)))
            /\ pc' = "backoff"
       ELSE /\ emitted' = Append(emitted, Event("connection_failed", 0))
            /\ pc' = "failed"
    /\ UNCHANGED <<clientVars, poolVars, buffer, mode, attempt, received, tool_call_index_map, aggVars, result>>

\* httpx.TimeoutException / httpx.NetworkError out of stream_func
TransientFailure ==
    /\ mode = "stream" /\ pc \in {"open", "reading"}
    /\ IF attempt < max_retries
       THEN /\ emitted' = Append(emitted, Event("connection_retry", WaitTime(attempt)))
            /\ pc' = "backoff"
       ELSE /\ emitted' = Append(emitted, Event("connection_failed", 0))
            /\ pc' = "failed"
    /\ UNCHANGED <<clientVars, poolVars, buffer, mode, attempt, received, tool_call_index_map, aggVars, result>>

\* asyncio.sleep(wait_time) returns; `continue` to the next attempt
BackoffDone ==
    /\ mode = "stream" /\ pc = "backoff"
    /\ attempt' = attempt + 1
    /\ pc' = "open"
    /\ UNCHANGED <<clientVars, poolVars, buffer, mode, received, emitted, tool_call_index_map, aggVars, result>>

\* mutant: any other exception is handled as the transient ones are
OtherFailure_retried ==
    /\ mode = "stream" /\ pc \in {"open", "reading"}
    /\ emitted' = Append(emitted, Event("stream_error", 0))
    /\ pc' = IF attempt < max_retries THEN "backoff" ELSE "failed"
    /\ UNCHANGED <<clientVars, poolVars, buffer, mode, attempt, received, tool_call_index_map, aggVars, result>>

\* any other exception out of stream_func: one stream_error event, then `raise`
OtherFailure ==
    /\ mode = "stream" /\ pc \in {"open", "reading"}
    /\ emitted' = Append(emitted, Event("stream_error", 0))
    /\ pc' = "failed"
    /\ UNCHANGED <<clientVars, poolVars, buffer, mode, attempt, received, tool_call_index_map, aggVars, result>>

\* mutant: the cancellation is caught by `except Exception`, as it would be
\* if CancelledError were an Exception: one more event is yielded
Disconnect_caught ==
    /\ mode = "stream" /\ pc \in {"reading", "backoff"}
    /\ emitted' = Append(emitted, Event("stream_error", 0))
    /\ pc' = "cancelled"
    /\ UNCHANGED <<clientVars, poolVars, buffer, mode, attempt, received, tool_call_index_map, aggVars, result>>

\* the caller disconnects: the task that runs the generator is cancelled at
\* the await it is suspended in (the upstream read, or asyncio.sleep).
\* asyncio.CancelledError is not an Exception, so neither `except` clause of
\* stream_with_retry catches it, and on its way out it leaves
\* `async with client.stream(...)`, which closes the upstream response.
Disconnect ==
    /\ mode = "stream" /\ pc \in {"reading", "backoff"}
    /\ pc' = "cancelled"
    /\ UNCHANGED <<clientVars, poolVars, buffer, mode, attempt, received, emitted, tool_call_index_map, aggVars, result>>

(* handle_non_stream_response *)

\* client.post(...) answered 200: `aggregator = StreamResponseAggregator()`
NonStreamOpen ==
    /\ mode = "nonstream" /\ pc = "open"
    /\ pc' = "reading"
    /\ SetAggregator(NewAggregator)
    /\ UNCHANGED <<clientVars, poolVars, buffer, mode, attempt, received, emitted, tool_call_index_map, result>>

NonStreamLine(line, max) ==
    /\ mode = "nonstream" /\ pc = "reading"
    /\ Len(received) < max
    /\ SetAggregator(AggregateLine(Aggregator, line))
    /\ received' = Append(received, Read(line, FALSE))
    /\ UNCHANGED <<clientVars, poolVars, buffer, mode, pc, attempt, emitted, tool_call_index_map, result>>

\* the body ends with `buffer` empty: `return aggregator.finalize()`
NonStreamEnd ==
    /\ mode = "nonstream" /\ pc = "reading"
    /\ Return(finalize(Aggregator))
    /\ pc' = "done"
    /\ UNCHANGED <<clientVars, poolVars, buffer, mode, attempt, received, emitted, tool_call_index_map>>

\* the body ends with an unterminated last line, which is parsed before finalize()
NonStreamTail(line, max) ==
    /\ mode = "nonstream" /\ pc = "reading"
    /\ Len(received) < max
    /\ Return(finalize(IF IsBlank(line) THEN Aggregator
                        ELSE AggregateLine(Aggregator, StripLine(line))))
    /\ pc' = "done"
    /\ received' = Append(received, Read(line, TRUE))
    /\ UNCHANGED <<clientVars, poolVars, buffer, mode, attempt, emitted, tool_call_index_map>>

\* `raise HTTPException(status_code=..., detail=...)`
HttpError(status, detail) == [status |-> status, detail |-> detail]

\* a slip: the upstream status is handed to the caller as it is
ApiErrorStatus_as_is(status_code) == status_code

\* _handle_api_error: the status the caller gets for an upstream status
ApiErrorStatus(status_code) ==
    IF status_code = 401 THEN 401
    ELSE IF status_code = 429 THEN 429
    ELSE IF status_code >= 500 THEN 502
    ELSE status_code

\* statuses other than 200 the upstream answers with
UpstreamErrors == {401, 404, 429, 500, 503}

\* the HTTPException _handle_api_error raises; `upstream` keeps the status
\* the upstream answered with
ApiError(status_code) ==
    [status |-> ApiErrorStatus(status_code), detail |-> "api", upstream |-> status_code]

\* response.status_code != 200: `self._handle_api_error(...)`
NonStreamOpenError ==
    /\ mode = "nonstream" /\ pc = "open"
    /\ \E status_code \in UpstreamErrors : result' = ApiError(status_code)
    /\ pc' = "failed"
    /\ UNCHANGED <<clientVars, poolVars, buffer, mode, attempt, received, emitted, tool_call_index_map, aggVars>>

\* httpx.TimeoutException -> 504, httpx.NetworkError -> 502, out of
\* client.post or response.aiter_text: `raise HTTPException(...)`
NonStreamTransientFailure ==
    /\ mode = "nonstream" /\ pc \in {"open", "reading"}
    /\ \/ result' = HttpError(504, "timeout")
       \/ result' = HttpError(502, "network")
    /\ pc' = "failed"
    /\ UNCHANGED <<clientVars, poolVars, buffer, mode, attempt, received, emitted, tool_call_index_map, aggVars>>

\* any other exception: 500
NonStreamOtherFailure ==
    /\ mode = "nonstream" /\ pc \in {"open", "reading"}
    /\ result' = HttpError(500, "request")
    /\ pc' = "failed"
    /\ UNCHANGED <<clientVars, poolVars, buffer, mode, attempt, received, emitted, tool_call_index_map, aggVars>>

----------------------------------------------------------------------------
(* RequestProcessor.validate_request.  A request body is what               *)
(* `await request.json()` made of it: [parsed: the text was JSON, object:   *)
(* it is a dict, field: "absent", "other" (a value that is not a list) or  *)
(* "list", messages: the list], a message being [object: it is a dict,      *)
(* role, content: the key is there].                                        *)

Message(object, role, content) == [object |-> object, role |-> role, content |-> content]

Body(parsed, object, field, messages) ==
    [parsed |-> parsed, object |-> object, field |-> field, messages |-> messages]

GoodMessage == Message(TRUE, TRUE, TRUE)

Bodies ==
    { Body(FALSE, FALSE, "absent", << >>),
      Body(TRUE, FALSE, "absent", << >>),
      Body(TRUE, TRUE, "absent", << >>),
      Body(TRUE, TRUE, "other", << >>),
      Body(TRUE, TRUE, "list", << >>),
      Body(TRUE, TRUE, "list", <<Message(FALSE, FALSE, FALSE)>>),
      Body(TRUE, TRUE, "list", <<Message(TRUE, FALSE, TRUE)>>),
      Body(TRUE, TRUE, "list", <<GoodMessage, Message(TRUE, TRUE, FALSE)>>),
      Body(TRUE, TRUE, "list", <<GoodMessage>>),
      Body(TRUE, TRUE, "list", <<GoodMessage, GoodMessage>>) }

\* chat_completions lines 630-638: request.json() raising gives 400, and so
\* does every `raise` of validate_request; 200 stands for passing
validate_request(body) ==
    IF ~body.parsed THEN 400
    ELSE IF ~body.object THEN 400
    ELSE IF body.field # "list" \/ body.messages = << >> THEN 400
    ELSE IF \E i \in DOMAIN body.messages :
                ~body.messages[i].object \/ ~body.messages[i].role \/ ~body.messages[i].content
        THEN 400
    ELSE 200

\* a slip: the credential is fetched before the body is validated
RejectInvalid_late(r) ==
    /\ requests[r].pc = "start"
    /\ \E body \in Bodies : validate_request(body) # 200
    /\ pool' = get_next_credential(pool).pool
    /\ requests' = [requests EXCEPT ![r] = [pc |-> "rejected", credential |-> "", status |-> 400]]
    /\ UNCHANGED <<requestVars, clientVars, handed>>

\* chat_completions on a body that does not pass: the HTTPException leaves
\* the handler before get_valid_credential (line 641) is reached
RejectInvalid(r) ==
    /\ requests[r].pc = "start"
    /\ \E body \in Bodies :
           /\ validate_request(body) # 200
           /\ requests' = [requests EXCEPT ![r] =
                  [pc |-> "rejected", credential |-> "", status |-> validate_request(body)]]
    /\ UNCHANGED <<requestVars, clientVars, pool, handed>>

(* CredentialManager and the credential endpoints *)

\* a slip: the manager is asked twice and the second credential is used
get_valid_credential_twice(P) ==
    LET next == get_next_credential(get_next_credential(P).pool)
    IN  [pool |-> next.pool,
         credential |-> next.credential,
         status |-> IF next.credential = None THEN 401
                    ELSE IF ~next.credential.bearer_token THEN 401
                    ELSE 200]

\* get_valid_credential: every failure inside the try, the two 401 included,
\* ends in `except Exception` and leaves as a 401
get_valid_credential(P) ==
    LET next == get_next_credential(P)
    IN  [pool |-> next.pool,
         credential |-> next.credential,
         status |-> IF next.credential = None THEN 401
                    ELSE IF ~next.credential.bearer_token THEN 401
                    ELSE 200]

\* a slip: the request goes on to the service whatever the manager answered
Answer_proceeds(got) ==
    [pc |-> "upstream", credential |-> Handed(got.credential).name, status |-> 0]

\* chat_completions after get_valid_credential: the HTTPException is raised
\* again and answers the request, otherwise the request goes on to the service
Answer(got) ==
    IF got.status = 200
    THEN [pc |-> "upstream", credential |-> Handed(got.credential).name, status |-> 0]
    ELSE [pc |-> "rejected", credential |-> "", status |-> got.status]

\* a slip: the state of the pool after the call is lost
GetCredential_lost_update(r) ==
    /\ requests[r].pc = "start"
    /\ LET got == get_valid_credential(pool)
       IN  /\ pool' = pool
           /\ handed' = Append(handed, Handed(got.credential))
           /\ requests' = [requests EXCEPT ![r] = Answer(got)]
    /\ UNCHANGED <<requestVars, clientVars>>

\* chat_completions up to the call of the service: the request gets its
\* credential, or is answered 401
GetCredential(r) ==
    /\ requests[r].pc = "start"
    /\ LET got == get_valid_credential(pool)
       IN  /\ pool' = got.pool
           /\ handed' = Append(handed, Handed(got.credential))
           /\ requests' = [requests EXCEPT ![r] = Answer(got)]
    /\ UNCHANGED <<requestVars, clientVars>>

\* POST /v1/credentials/select
SelectCredential(index) ==
    /\ pool' = set_manual_credential(pool, index).pool
    /\ UNCHANGED <<requestVars, clientVars, requests, handed>>

\* POST /v1/credentials/auto
ResumeAutoRotation ==
    /\ pool' = clear_manual_selection(pool)
    /\ UNCHANGED <<requestVars, clientVars, requests, handed>>

\* POST /v1/credentials/toggle-rotation
ToggleAutoRotation ==
    /\ pool' = toggle_auto_rotation(pool)
    /\ UNCHANGED <<requestVars, clientVars, requests, handed>>

\* POST /v1/credentials: a bearer_token is required
AddCredential ==
    /\ Len(pool.credentials) < MaxCredentials
    /\ pool' = add_credential(pool, Credential("added", TRUE, FALSE))
    /\ UNCHANGED <<requestVars, clientVars, requests, handed>>

\* POST /v1/credentials/delete
DeleteCredential(index) ==
    /\ pool' = delete_credential_by_index(pool, index).pool
    /\ UNCHANGED <<requestVars, clientVars, requests, handed>>

\* the expiry timestamp of a credential is reached
Expire(i) ==
    /\ i \in Positions(pool)
    /\ ~At(pool, i).expired
    /\ pool' = Expired(pool, i)
    /\ UNCHANGED <<requestVars, clientVars, requests, handed>>

(* StreamResponseAggregator, used after finalize().  The class keeps no   *)
(* record of having been finalized: process_chunk and finalize have no      *)
(* guard, so a call made after finalize() runs as any other call.  The      *)
(* response finalize() returned shares its tool-call entries with           *)
(* tool_call_map (the same dict objects), and data["tool_calls"] does too.  *)

Finalized == mode = "nonstream" /\ pc \in {"done", "late", "again"}

\* the entries of a tool-call list, read through the map they are shared with
Shared(tcs, m) == [i \in 1..Len(tcs) |-> m[tcs[i].id]]

\* aggregator.process_chunk(parse_sse_line(line)) on a finalized aggregator
LateChunk(line, max) ==
    /\ Finalized /\ pc # "again"
    /\ Len(received) < max
    /\ LET agg == AggregateLine(Aggregator, line)
       IN  /\ SetAggregator([agg EXCEPT
                               !.data.tool_calls = Shared(@, agg.tool_call_map)])
           /\ result' = [result EXCEPT
                            !.message.tool_calls = Shared(@, agg.tool_call_map)]
    /\ received' = Append(received, Read(line, FALSE))
    /\ pc' = "late"
    /\ UNCHANGED <<clientVars, poolVars, buffer, mode, attempt, emitted, tool_call_index_map>>

\* aggregator.finalize() on a finalized aggregator
FinalizeAgain ==
    /\ Finalized /\ pc # "again"
    /\ Return(finalize(Aggregator))
    /\ pc' = "again"
    /\ UNCHANGED <<clientVars, poolVars, buffer, mode, attempt, received, emitted, tool_call_index_map>>

----------------------------------------------------------------------------
(* The upstream lines the model draws from *)

TextChunk(content) == Chunk("r1", "m1", "", 0, <<Choice(content, << >>, "")>>)

ToolChunk(tcs) == Chunk("r1", "m1", "", 0, <<Choice(NoText, tcs, "")>>)

BlankLine      == TextLine("", NoText)
CommentLine    == TextLine(":", <<"ping">>)
FieldLine      == TextLine("event: ", <<"message">>)
Terminator     == TextLine("data: ", <<DONE>>)
Malformed      == TextLine("data: ", <<"{", "a">>)
MalformedDone  == TextLine("data: ", <<"{", DONE>>)
EmptyData      == JsonLine("data: ", EmptyObj)
MetaLine       == JsonLine("data: ", Chunk("r2", "", "fp", 7, NoChoice))
TextA          == JsonLine("data: ", TextChunk(<<"a">>))
Indented       == JsonLine(" data: ", TextChunk(<<"b">>))
TextDone       == JsonLine("data: ", TextChunk(<<"say", DONE>>))

FramingLines ==
    {BlankLine, CommentLine, FieldLine, Terminator, Malformed, MalformedDone,
     EmptyData, MetaLine, TextA, Indented, TextDone}

Tool1 == <<"tooluse_", "1">>
Tool2 == <<"tooluse_", "2">>
Call1 == <<"call_", "1">>

ToolLines ==
    { JsonLine("data: ", ToolChunk(<<ToolCall(Tool1, <<"{">>)>>)),
      JsonLine("data: ", ToolChunk(<<ToolCall(Tool2, <<"[">>)>>)),
      JsonLine("data: ", ToolChunk(<<ToolCall(Call1, <<"1">>)>>)),
      JsonLine("data: ", ToolChunk(<<ToolCall(NoId, <<"}">>)>>)),
      JsonLine("data: ", ToolChunk(<<ToolCall(NoId, <<"]">>)>>)),
      JsonLine("data: ", ToolChunk(<<ToolCall(Tool2, NoText), ToolCall(NoId, <<"[", "]">>)>>)),
      Terminator }

\* pieces of argument text, as the vendor splits it over the fragments of
\* one tool call: nothing  {"a":1}  {"b":2}  {"a":  1  }  [  ]  a blank  NaN
\* and the string "}{}"
ArgPieces ==
    { NoText,
      <<"{", "\"", "a", "\"", ":", "1", "}">>,
      <<"{", "\"", "b", "\"", ":", "2", "}">>,
      <<"{", "\"", "a", "\"", ":">>,
      <<"1">>, <<"}">>, <<"[">>, <<"]">>, <<" ">>, NaN,
      <<"\"", "}", "{", "}", "\"">> }

ArgLines == { JsonLine("data: ", ToolChunk(<<ToolCall(Tool1, piece)>>)) : piece \in ArgPieces }

\* chunks that carry identifier, model and fingerprint, a usage-only chunk,
\* vendor-reported finish reasons, and a tool call
Meta1      == JsonLine("data: ", Chunk("r1", "m1", "fp1", 0, NoChoice))
Meta2      == JsonLine("data: ", Chunk("r2", "m2", "fp2", 0, NoChoice))
UsageOnly  == JsonLine("data: ", Chunk("", "", "", 7, NoChoice))
FinLength  == JsonLine("data: ", Chunk("", "", "", 0, <<Choice(NoText, << >>, "length")>>))
FinStop    == JsonLine("data: ", Chunk("", "", "", 0, <<Choice(<<"a">>, << >>, "stop")>>))
OneTool    == JsonLine("data: ", Chunk("", "", "", 0,
                  <<Choice(NoText, <<ToolCall(Tool1, <<"{", "}">>)>>, "")>>))

AggLines == {Meta1, Meta2, UsageOnly, FinLength, FinStop, OneTool}

----------------------------------------------------------------------------
(* Specifications *)

Open == StreamOpen \/ StreamOpenError \/ NonStreamOpen

Failures ==
    \/ TransientFailure \/ BackoffDone \/ OtherFailure
    \/ NonStreamOpenError \/ NonStreamTransientFailure \/ NonStreamOtherFailure

Ends == StreamEnd \/ NonStreamEnd

Lines(L, max) ==
    \E line \in L :
        \/ StreamLine(line, max)
        \/ StreamTail(line, max)
        \/ NonStreamLine(line, max)
        \/ NonStreamTail(line, max)

\* framing and text
Next == Open \/ Ends \/ Lines(FramingLines, MaxLines)

Spec == Init /\ [][Next]_vars

\* tool-call streams
NextTools == Open \/ Ends \/ Lines(ToolLines, MaxToolLines)

SpecTools == Init /\ [][NextTools]_vars

\* transport failures and retries
RetryLines == {TextA, FieldLine, BlankLine, Terminator}

NextRetry == Open \/ Ends \/ Failures \/ Disconnect \/ Lines(RetryLines, MaxRetryLines)

SpecRetry == Init /\ [][NextRetry]_vars

\* network reads: whole lines, parts of a line, several lines, nothing
WireChunks ==
    { NoText, <<NL>>, <<"data: ">>, <<ChunkA>>, <<ChunkA, NL>>, <<DONE, NL>>,
      <<"data: ", ChunkA, NL>>, <<":", NL, "data: ", ChunkA>>,
      <<NL, "data: ", ChunkA, NL, "data: ">> }

NextChunks ==
    \/ Open
    \/ \E chunk \in WireChunks : StreamChunk(chunk, MaxChunks)
    \/ StreamBodyEnd

SpecChunks == Init /\ [][NextChunks]_vars

\* the ways a request fails: a body that does not pass, an upstream answer
\* other than 200, transport failures
NextErrors ==
    \/ Open \/ Ends \/ Failures \/ Lines(RetryLines, MaxRetryLines)
    \/ \E r \in 1..MaxPoolRequests : RejectInvalid(r)

SpecErrors == Init /\ [][NextErrors]_vars

\* argument repair: one tool call whose argument text arrives in pieces
NextRepair == Open \/ Ends \/ Lines(ArgLines, MaxRepairLines)

SpecRepair == Init /\ [][NextRepair]_vars

\* the aggregator and its callers
NextAggregator ==
    \/ Open \/ Ends \/ Lines(AggLines, MaxAggLines)
    \/ \E line \in AggLines : LateChunk(line, MaxAggLines)
    \/ FinalizeAgain

SpecAggregator == Init /\ [][NextAggregator]_vars

\* concurrent callers of get_http_client, and the shutdown
NextClient ==
    \/ \E g \in Getters : GetClientFast(g) \/ GetClientWait(g) \/ GetClientLocked(g)
    \/ CloseStart
    \/ CloseDone

SpecClient == Init /\ [][NextClient]_vars

\* the credential pool: three pools to start from, rotation batch 1 or 2
ThreeValid ==
    <<Credential("c0", TRUE, FALSE), Credential("c1", TRUE, FALSE),
      Credential("c2", TRUE, FALSE)>>

OneValid ==
    <<Credential("c0", FALSE, FALSE), Credential("c1", TRUE, FALSE),
      Credential("c2", TRUE, TRUE)>>

NoneValid == <<Credential("c0", FALSE, FALSE), Credential("c1", TRUE, TRUE)>>

InitialPools ==
    { [NoPool EXCEPT !.credentials = creds] :
          creds \in {<< >>, ThreeValid, OneValid, NoneValid} }

\* the pools the credential endpoints start from: credentials are added with
\* a bearer value, and lose their validity by expiring
InitPool ==
    /\ InitRequest
    /\ mode = "nonstream"
    /\ InitClient
    /\ pool \in { P \in InitialPools : \A i \in Positions(P) : Usable(At(P, i)) }
    /\ requests = NoRequests
    /\ handed = << >>

Indexes == 0..MaxCredentials

\* the requests still to come, the next one first
Waiting == { r \in 1..MaxPoolRequests : requests[r].pc = "start" }

\* chat requests one after another, between operations on the pool
NextPool ==
    \/ \E r \in Waiting : (\A q \in Waiting : r <= q) /\ GetCredential(r)
    \/ \E index \in Indexes : SelectCredential(index) \/ DeleteCredential(index) \/ Expire(index)
    \/ ResumeAutoRotation
    \/ ToggleAutoRotation
    \/ AddCredential

SpecPool == InitPool /\ [][NextPool]_vars

\* concurrent chat requests on a pool nobody administers: the requests reach
\* get_valid_credential in any order
InitRotation ==
    /\ InitRequest
    /\ InitClient
    /\ pool \in { [P EXCEPT !.batch = batch] : P \in InitialPools, batch \in {1, 2} }
    /\ requests = NoRequests
    /\ handed = << >>

NextRotation == \E r \in Requests : GetCredential(r)

SpecRotation == InitRotation /\ [][NextRotation]_vars

\* chat requests with bodies that pass and bodies that do not, on a pool
\* with or without a pin
NextValidation ==
    \/ \E r \in 1..MaxPoolRequests : GetCredential(r) \/ RejectInvalid(r)
    \/ \E index \in Indexes : SelectCredential(index)

SpecValidation == InitPool /\ [][NextValidation]_vars

----------------------------------------------------------------------------
(* Reading the histories *)

Fragments(chunk) ==
    IF chunk.choices = NoChoice THEN << >> ELSE chunk.choices[1].tool_calls

DeltaOf(chunk) ==
    IF chunk.choices = NoChoice THEN NoText ELSE chunk.choices[1].content

\* the upstream lines of `received`, without their bookkeeping
ReceivedLines == [k \in 1..Len(received) |-> received[k].line]

\* the read was handed to the remapper by the streaming translator
Remapped(read) ==
    IF read.tail THEN ~IsBlank(read.line) /\ Decodes(StripLine(read.line))
    ELSE ~IsBlank(read.line) /\ ~IsComment(read.line) /\ ~ContainsDone(read.line)
         /\ Decodes(read.line)

\* the tool-call fragments the remapper was given, and the ones it gave back
InFrags ==
    Flatten([k \in 1..Len(received) |->
                IF Remapped(received[k]) THEN Fragments(received[k].line.chunk)
                ELSE << >>])

FragsOf(out) ==
    Flatten([i \in 1..Len(out) |->
                IF out[i].kind = "data" THEN Fragments(out[i].chunk) ELSE << >>])

OutFrags == FragsOf(emitted)

IdsOf(frags) == { frags[j].id : j \in 1..Len(frags) } \ {NoId}

FirstPos(frags, id) ==
    CHOOSE j \in 1..Len(frags) :
        /\ frags[j].id = id
        /\ \A i \in 1..(j - 1) : frags[i].id # id

\* how many identifiers appeared for the first time before `id` did
Rank(frags, id) ==
    Cardinality({ x \in IdsOf(frags) : FirstPos(frags, x) < FirstPos(frags, id) })

\* the positions before j that carry an identifier
IdPositionsBefore(frags, j) == { i \in 1..(j - 1) : frags[i].id # NoId }

\* the identifier most recently seen before fragment j
LastIdBefore(frags, j) == frags[SetMax(IdPositionsBefore(frags, j))].id

\* what the caller reads as text out of one emitted line
EmittedDelta(e) ==
    IF e.kind = "data" THEN DeltaOf(e.chunk)
    ELSE IF e.kind = "raw" /\ Decodes(e.line) THEN DeltaOf(e.line.chunk)
    ELSE NoText

DeltaText(out) == Flatten([i \in 1..Len(out) |-> EmittedDelta(out[i])])

\* the translator run over a whole line sequence (one attempt)
RECURSIVE StreamOutput(_, _, _, _)
StreamOutput(reads, k, m, out) ==
    IF k > Len(reads) THEN out
    ELSE LET t == IF reads[k].tail THEN TranslateTail(reads[k].line, m, k)
                  ELSE TranslateLine(reads[k].line, m, k)
         IN  IF t.stop THEN out \o t.out
             ELSE StreamOutput(reads, k + 1, t.map, out \o t.out)

Translated(reads) == StreamOutput(reads, 1, NoMap, << >>)

----------------------------------------------------------------------------
(* Claims *)

\* C1: for every upstream line sequence, the text deltas the streaming
\* translator emits, concatenated in emission order, equal the content
\* field finalize() returns for the same line sequence.  (Stated on the
\* finished non-streaming request: its result is compared with the
\* translator run over the very lines it read.)
C1_DeltasEqualContent ==
    (mode = "nonstream" /\ pc = "done")
        => result.message.content = DeltaText(Translated(received))


(* The aggregator's side of a tool-call stream *)

\* the fragments the aggregator folded: every decoded line's tool calls
AggFrags ==
    Flatten([k \in 1..Len(received) |->
                IF Decodes(IF received[k].tail THEN StripLine(received[k].line)
                           ELSE received[k].line)
                THEN Fragments(received[k].line.chunk) ELSE << >>])

IdPositions(frags) == { j \in 1..Len(frags) : frags[j].id # NoId }

SetMin(S) == CHOOSE x \in S : \A y \in S : x <= y

RECURSIVE ConcatArgs(_, _, _)
ConcatArgs(frags, from, to) ==
    IF from > to THEN NoText
    ELSE frags[from].arguments \o ConcatArgs(frags, from + 1, to)

\* two calls with different identifiers, each followed by at least one
\* fragment without identifier
TwoCalls(frags) ==
    /\ Cardinality(IdPositions(frags)) = 2
    /\ Cardinality(IdsOf(frags)) = 2
    /\ SetMin(IdPositions(frags)) + 1 < SetMax(IdPositions(frags))
    /\ SetMax(IdPositions(frags)) < Len(frags)

FirstCallArgs(frags) ==
    ConcatArgs(frags, SetMin(IdPositions(frags)), SetMax(IdPositions(frags)) - 1)

SecondCallArgs(frags) == ConcatArgs(frags, SetMax(IdPositions(frags)), Len(frags))

FirstCallId(frags) == frags[SetMin(IdPositions(frags))].id

SecondCallId(frags) == frags[SetMax(IdPositions(frags))].id

TwoEntriesInOrder(frags) ==
    /\ tool_call_order = <<FirstCallId(frags), SecondCallId(frags)>>
    /\ DOMAIN tool_call_map = {FirstCallId(frags), SecondCallId(frags)}

SameFragments == Len(OutFrags) = Len(InFrags)

\* C3: the remapper assigns positions 0, 1, 2, ... to identifiers in order
\* of first appearance; a fragment carrying an already-seen identifier gets
\* that identifier's original position, and the number of allocated
\* positions is the number of distinct identifiers seen.
C3_PositionsByFirstAppearance ==
    mode = "stream" =>
        /\ SameFragments
        /\ DOMAIN tool_call_index_map = IdsOf(InFrags)
        /\ \A id \in IdsOf(InFrags) : tool_call_index_map[id] = Rank(InFrags, id)
        /\ MapValues(tool_call_index_map) = 0..(Cardinality(IdsOf(InFrags)) - 1)
        /\ \A j \in 1..Len(InFrags) :
               InFrags[j].id # NoId => OutFrags[j].index = Rank(InFrags, InFrags[j].id)

\* an identifier came a second time after another one had been allocated
C3_Witness ==
    /\ mode = "stream"
    /\ Cardinality(IdsOf(InFrags)) = 2
    /\ \E i, j \in 1..Len(InFrags) :
           /\ i + 1 < j
           /\ InFrags[i].id # NoId /\ InFrags[j].id = InFrags[i].id
           /\ InFrags[i + 1].id \notin {NoId, InFrags[i].id}
           /\ OutFrags[j].index = 0 /\ OutFrags[i + 1].index = 1

\* C4: every fragment without identifier is emitted with the position of
\* the identifier most recently seen in the stream, also when that is an
\* earlier identifier that reappeared after a later one was allocated.
C4_InheritsMostRecentlySeen ==
    mode = "stream" =>
        \A j \in 1..Len(InFrags) :
            (InFrags[j].id = NoId /\ IdPositionsBefore(InFrags, j) # {} /\ j <= Len(OutFrags))
                => OutFrags[j].index = Rank(InFrags, LastIdBefore(InFrags, j))

\* the caller-facing lines of what was emitted, as a stream to translate again
AsUpstream(out) ==
    [i \in 1..Len(out) |->
        [line |-> IF out[i].kind = "data" THEN JsonLine("data: ", out[i].chunk)
                  ELSE IF out[i].kind = "raw" THEN out[i].line
                  ELSE BlankLine,
         attempt |-> 0, tail |-> FALSE]]

IdAndIndex(frags) == [j \in 1..Len(frags) |-> <<frags[j].id, frags[j].index>>]

RoundTripStable ==
    IdAndIndex(FragsOf(Translated(AsUpstream(emitted)))) = IdAndIndex(OutFrags)

\* C5 (as stated): translating the translator's output again, with a fresh
\* mapping, yields exactly the same identifiers and positions.
C5_RoundTripStable == mode = "stream" => RoundTripStable

\* no two identifiers of the stream translate to the same identifier
DistinctTranslations(ids) ==
    \A x, y \in ids : convert_tool_call_id(x) = convert_tool_call_id(y) => x = y

\* C5 (amended): the round trip is stable for every stream whose vendor
\* identifiers have pairwise distinct translations.
C5_RoundTripStableWhenDistinct ==
    (mode = "stream" /\ DistinctTranslations(IdsOf(InFrags))) => RoundTripStable

\* two translated identifiers and a fragment without identifier went round
C5_Witness ==
    /\ mode = "stream" /\ pc = "done"
    /\ DistinctTranslations(IdsOf(InFrags))
    /\ IdsOf(InFrags) = {Tool1, Tool2}
    /\ IdsOf(OutFrags) = {<<"call_", "1">>, <<"call_", "2">>}
    /\ \E j \in 1..Len(OutFrags) : OutFrags[j].id = NoId /\ OutFrags[j].index = 1
    /\ RoundTripStable

\* C6: the identifier translation maps tooluse_<rest> to call_<rest> and
\* returns every other identifier unchanged.
C6_IdentifierTranslation ==
    mode = "stream" =>
        /\ SameFragments
        /\ \A j \in 1..Len(InFrags) :
               LET old == InFrags[j].id
                   new == OutFrags[j].id
               IN  /\ Len(new) = Len(old)
                   /\ \A i \in 2..Len(old) : new[i] = old[i]
                   /\ (old # NoId /\ old[1] = "tooluse_") => new[1] = "call_"
                   /\ (old # NoId /\ old[1] # "tooluse_") => new[1] = old[1]

\* a vendor-prefixed and an unprefixed identifier were both translated
C6_Witness ==
    /\ mode = "stream"
    /\ \E i, j \in 1..Len(InFrags) :
           /\ InFrags[i].id = Tool2 /\ OutFrags[i].id = <<"call_", "2">>
           /\ InFrags[j].id = Call1 /\ OutFrags[j].id = Call1


(* Framing *)

\* the emitted lines that come from an upstream line
FromUpstream == { i \in 1..Len(emitted) : emitted[i].src > 0 }

\* C7: within one upstream attempt the emitted lines appear in the order
\* in which their upstream lines were received.
C7_EmissionOrderIsArrivalOrder ==
    mode = "stream" =>
        /\ \A i \in FromUpstream :
               /\ emitted[i].src <= Len(received)
               /\ received[emitted[i].src].attempt = emitted[i].attempt
               /\ emitted[i].kind = "raw" => emitted[i].line = received[emitted[i].src].line
               /\ emitted[i].kind = "data" =>
                      DeltaOf(emitted[i].chunk) = DeltaOf(received[emitted[i].src].line.chunk)
        /\ \A i, j \in FromUpstream :
               (i < j /\ emitted[i].attempt = emitted[j].attempt)
                   => emitted[i].src < emitted[j].src

\* after a retry, three lines of one attempt were emitted around a dropped one
C7_Witness ==
    /\ mode = "stream" /\ attempt = 1
    /\ \E i \in FromUpstream :
           /\ i + 1 \in FromUpstream
           /\ emitted[i].attempt = 1
           /\ emitted[i + 1].src = emitted[i].src + 2
           /\ emitted[i].kind = "data" /\ emitted[i + 1].kind = "raw"

TerminatorEmissions ==
    { i \in 1..Len(emitted) : emitted[i].kind = "raw" /\ emitted[i].line = Terminator }

\* C8: when the upstream terminator line arrives the translator emits it
\* and stops: it is emitted exactly once, nothing is emitted after it and
\* no retry is started after it.
C8_TerminatorEndsStream ==
    mode = "stream" =>
        /\ \A k \in 1..Len(received) :
               received[k].line = Terminator =>
                   /\ k = Len(received)
                   /\ Cardinality(TerminatorEmissions) = 1
        /\ TerminatorEmissions # {} =>
               /\ TerminatorEmissions = {Len(emitted)}
               /\ Last(emitted).src = Len(received)
               /\ pc = "done"
               /\ ~ENABLED NextRetry

\* the terminator arrived in a retried attempt, after a line of that attempt
C8_Witness ==
    /\ mode = "stream" /\ attempt = 1
    /\ TerminatorEmissions # {}
    /\ Len(emitted) >= 3
    /\ emitted[Len(emitted) - 1].kind = "data"
    /\ emitted[Len(emitted) - 1].attempt = 1

EmissionsOf(k) == { i \in 1..Len(emitted) : emitted[i].src = k }

ForwardedUnmodified(k) ==
    /\ Cardinality(EmissionsOf(k)) = 1
    /\ \A i \in EmissionsOf(k) :
           emitted[i].kind = "raw" /\ emitted[i].line = received[k].line

\* the aggregator is where the data-prefixed lines alone would have put it
NonDataLinesIgnored ==
    (mode = "nonstream" /\ pc # "done") =>
        Aggregator = AggregateLines(NewAggregator, SelectSeq(ReceivedLines, HasDataPrefix))

\* C9 (as stated): in streaming mode every upstream line not prefixed with
\* the data marker is forwarded unmodified, none dropped or altered; in
\* aggregation mode such lines leave the aggregator state unchanged.
C9_NonDataLinesForwarded ==
    /\ mode = "stream" =>
           \A k \in 1..Len(received) :
               ~HasDataPrefix(received[k].line) => ForwardedUnmodified(k)
    /\ NonDataLinesIgnored

\* C9 (amended): of the newline-terminated lines the translator reads that
\* are not prefixed with the data marker, the blank ones and the comments
\* (starting with ':') are dropped and every other one is forwarded
\* unmodified; in aggregation mode newline-terminated lines without the
\* data marker leave the aggregator state unchanged.
C9_NonDataLinesForwardedOrSkipped ==
    /\ mode = "stream" =>
           \A k \in 1..Len(received) :
               (~received[k].tail /\ ~HasDataPrefix(received[k].line)) =>
                   IF IsBlank(received[k].line) \/ IsComment(received[k].line)
                   THEN EmissionsOf(k) = {}
                   ELSE ForwardedUnmodified(k)
    /\ NonDataLinesIgnored

\* a field line was forwarded between a dropped blank line and a dropped comment
C9_Witness ==
    /\ mode = "stream" /\ Len(received) = 3
    /\ received[1].line = BlankLine
    /\ received[2].line = FieldLine
    /\ received[3].line = CommentLine /\ ~received[3].tail
    /\ Len(emitted) = 1 /\ emitted[1].line = FieldLine

\* a data line whose payload is neither empty, nor the terminator, nor JSON
MalformedData(line) ==
    HasDataPrefix(line) /\ ~line.json /\ line.text \notin {NoText, <<DONE>>}

ReadsOneLine == Len(received') = Len(received) + 1

\* C10: a data line whose payload is not valid structured data decodes to
\* none, and the streaming translator forwards that raw line unchanged and
\* continues with the following lines.
C10_MalformedForwardedAndContinue ==
    [][ (mode = "stream" /\ ReadsOneLine /\ MalformedData(Last(received').line)) =>
            /\ parse_sse_line(Last(received').line) = None
            /\ emitted' = Append(emitted, Raw(Last(received').line, Len(received')))
            /\ ~Last(received').tail => pc' = "reading" ]_vars

----------------------------------------------------------------------------
(* Argument repair, as finalize() applies it to an accumulated argument text *)

\* the argument text the aggregator accumulated for its one tool call
ArgText == ConcatArgs(AggFrags, 1, Len(AggFrags))

\* the argument text of that call in the returned message
RepairedText == result.message.tool_calls[1].arguments

Repaired == mode = "nonstream" /\ pc = "done" /\ AggFrags # << >>

RECURSIVE HasNaN(_)
HasNaN(val) ==
    IF val.t = "nan" THEN TRUE
    ELSE IF val.t = "obj"
        THEN \E i \in 1..Len(val.members) : HasNaN(val.members[i].v)
    ELSE IF val.t = "arr" THEN \E i \in 1..Len(val.items) : HasNaN(val.items[i])
    ELSE FALSE

\* the text is a JSON text: it decodes, and not by way of a constant that
\* JSON does not have
ValidJson(text) == json_loads(text).ok /\ ~HasNaN(json_loads(text).val)

\* C11: argument repair returns, for every input text, a text that is
\* syntactically valid structured data.
C11_RepairReturnsValidJson == Repaired => ValidJson(RepairedText)

\* the text as repair looks at it: `args = args.strip()`
Stripped == Strip(ArgText)

\* brace depth after the first i characters
Depth(s, i) == Count(SubSeq(s, 1, i), "{") - Count(SubSeq(s, 1, i), "}")

\* the points where a closing brace brings the depth back to zero
ZeroPoints(s) == { i \in 1..Len(s) : s[i] = "}" /\ Depth(s, i) = 0 }

\* the candidate that ends at zero point i: it starts after the zero point before
Candidate(s, i) ==
    LET before == { j \in ZeroPoints(s) : j < i }
    IN  Strip(SubSeq(s, IF before = {} THEN 1 ELSE SetMax(before) + 1, i))

ParsingPoints(s) == { i \in ZeroPoints(s) : json_loads(Candidate(s, i)).ok }

FirstCandidate(s) == json_loads(Candidate(s, SetMin(ParsingPoints(s)))).val

ObjA1 == [t |-> "obj", members |-> <<[k |-> <<"a">>, v |-> [t |-> "num", s |-> <<"1">>]]>>]

\* {"a":1}{"b":2}
TwoObjects ==
    <<"{", "\"", "a", "\"", ":", "1", "}", "{", "\"", "b", "\"", ":", "2", "}">>

\* C12: for an argument text that contains `}{`, repair splits where the
\* brace depth returns to zero, parses each candidate on its own and returns
\* the first candidate that parses, as an object; later objects are
\* discarded ({"a":1}{"b":2} yields the object {"a":1}).
C12_FirstParsedObjectWins ==
    (Repaired /\ CountCloseOpen(Stripped) > 0) =>
        /\ ParsingPoints(Stripped) # {} =>
               /\ json_loads(RepairedText).ok
               /\ json_loads(RepairedText).val = FirstCandidate(Stripped)
        /\ Stripped = TwoObjects => json_loads(RepairedText).val = ObjA1

C12_Witness ==
    /\ Repaired /\ ArgText = TwoObjects
    /\ RepairedText = <<"{", "\"", "a", "\"", ":", " ", "1", "}">>

\* the text is an object (closer "}") or an array (closer "]") that lacks
\* exactly its last closer
TruncatedBy(s, closer) ==
    /\ ~json_loads(s).ok
    /\ json_loads(Append(s, closer)).ok
    /\ json_loads(Append(s, closer)).val.t = (IF closer = "}" THEN "obj" ELSE "arr")

\* C13: for an argument text that is a single object or array truncated by
\* exactly one trailing closing brace or bracket, repair returns the input
\* with that one closer appended.
C13_MissingCloserAppended ==
    \A closer \in {"}", "]"} :
        (Repaired /\ TruncatedBy(Stripped, closer)) =>
            RepairedText = Append(Stripped, closer)

\* neither the text, nor a candidate of the split, nor the text with a
\* closer appended decodes
NothingDecodes(s) ==
    /\ ~json_loads(s).ok
    /\ CountCloseOpen(s) > 0 => ParsingPoints(s) = {}
    /\ \A closer \in {"}", "]"} : ~json_loads(Append(s, closer)).ok

\* C14: when neither the concatenation split nor the single-closer append
\* yields valid structured data, and for an empty argument text, repair
\* returns the empty object {}.
C14_FallbackIsEmptyObject ==
    (Repaired /\ (ArgText = NoText \/ NothingDecodes(Stripped))) =>
        RepairedText = <<"{", "}">>

C14_Witness ==
    /\ Repaired /\ ArgText = <<"]", "1", "}">>
    /\ RepairedText = <<"{", "}">>

C14_WitnessEmpty == Repaired /\ ArgText = NoText /\ RepairedText = <<"{", "}">>

----------------------------------------------------------------------------
(* The aggregated response *)

\* the chunks process_chunk was given, in order
AggChunks ==
    LET lines == [k \in 1..Len(received) |->
                     IF received[k].tail THEN StripLine(received[k].line)
                     ELSE received[k].line]
    IN  SelectSeq([k \in 1..Len(lines) |-> lines[k].chunk], LAMBDA c : Truthy(c))

BasicFields == {"id", "model", "system_fingerprint"}

\* C15: in the aggregator, identifier, model name and fingerprint each take
\* the first non-empty value seen and are never overwritten by a later chunk.
C15_FirstNonEmptyWins ==
    [][ \A f \in BasicFields :
          (mode = "nonstream" /\ pc = "reading" /\ data[f] # "") => data'[f] = data[f] ]_vars

\* the finish reasons the vendor reported, in order
ReportedReasons ==
    LET reasons == [k \in 1..Len(AggChunks) |->
                       IF AggChunks[k].choices = NoChoice THEN ""
                       ELSE AggChunks[k].choices[1].finish_reason]
    IN  SelectSeq(reasons, LAMBDA r : r # "")

\* at least one tool call was accumulated
ToolCallSeen == \E j \in 1..Len(AggFrags) : AggFrags[j].id # NoId

\* C16: the finalized message's finish reason is "tool_calls" whenever a
\* tool call was accumulated, whatever the vendor reported; without a tool
\* call it is the vendor-reported reason (the last one reported) if any,
\* otherwise "stop".
C16_FinishReason ==
    (mode = "nonstream" /\ pc = "done") =>
        result.finish_reason =
            IF ToolCallSeen THEN "tool_calls"
            ELSE IF ReportedReasons # << >> THEN Last(ReportedReasons)
            ELSE "stop"

C16_Witness ==
    /\ mode = "nonstream" /\ pc = "done"
    /\ ToolCallSeen /\ ReportedReasons = <<"stop">>
    /\ result.finish_reason = "tool_calls"

\* a step in which the aggregator is given one more chunk
ChunkCall == Len(received') = Len(received) + 1

\* a step in which finalize() is called: the caller moves on without a chunk
FinalizeCall == pc' # pc /\ received' = received

\* C17: after finalize(), any further process_chunk call is rejected with a
\* failure and does not change the aggregated state.
C17_ChunkAfterFinalizeRejected ==
    [][ (Finalized /\ ChunkCall) => (pc' = "failed" /\ UNCHANGED aggVars) ]_vars

\* C18: finalize() is callable once: a second finalize() fails loudly
\* instead of returning a result.
C18_SecondFinalizeFails ==
    [][ (Finalized /\ FinalizeCall) => (pc' = "failed" /\ result' = result) ]_vars

----------------------------------------------------------------------------
(* Retries, as the caller of a streaming request sees them *)

IsRetryEvent(e) == e.kind = "event" /\ e.etype = "connection_retry"

RetryEvents == SelectSeq(emitted, IsRetryEvent)

\* the number of retry events the caller has received before emission j
RetriesBefore(j) == Cardinality({ i \in 1..(j - 1) : IsRetryEvent(emitted[i]) })

\* C19: a streaming call that failed transiently k times shows the caller
\* exactly k retry events, one before each retry, the i-th announcing a wait
\* of base * 2^(i-1): 1, 2, 4; two failures and then success give two retry
\* events with waits 1 and 2 before the stream completes.
C19_RetryEventsAndWaits ==
    mode = "stream" =>
        /\ pc # "cancelled" => Len(RetryEvents) = attempt + (IF pc = "backoff" THEN 1 ELSE 0)
        /\ pc = "cancelled" => Len(RetryEvents) \in {attempt, attempt + 1}
        /\ \A i \in 1..Len(RetryEvents) : RetryEvents[i].wait = retry_delay * 2 ^ (i - 1)
        /\ \A j \in 1..Len(emitted) : emitted[j].attempt = RetriesBefore(j)
        /\ (pc = "done" /\ attempt = 2) =>
               [i \in 1..2 |-> RetryEvents[i].wait] = <<1, 2>>

C19_Witness ==
    /\ mode = "stream" /\ pc = "done" /\ attempt = 2
    /\ Len(RetryEvents) = 2
    /\ RetryEvents[1].wait = 1 /\ RetryEvents[2].wait = 2
    /\ Len(emitted) = 4
    /\ emitted[3].kind = "data" /\ emitted[4].line = Terminator

\* C20: with retry limit N a streaming call is attempted at most N + 1
\* times; when the last attempt fails transiently the error propagates to
\* the caller and no further attempt is made.
C20_AtMostNRetries ==
    /\ attempt <= max_retries
    /\ Len(RetryEvents) <= max_retries
    /\ (emitted # << >> /\ Last(emitted).etype = "connection_failed") =>
           /\ pc = "failed"
           /\ attempt = max_retries
           /\ ~ENABLED NextRetry

C20_Witness ==
    /\ pc = "failed" /\ attempt = max_retries
    /\ Len(RetryEvents) = max_retries
    /\ Last(emitted).etype = "connection_failed"

\* the caller has been told of a failure that is not a transient one: an
\* exception other than a timeout or network error, or a non-200 answer
NonTransientAt(j) ==
    emitted[j].kind = "event" /\ emitted[j].etype \in {"stream_error", "api_error"}

\* C21: a non-transient failure of the streaming call propagates to the
\* caller immediately: after it no retry event is emitted, no wait happens
\* and no further upstream attempt is opened.
C21_NonTransientNotRetried ==
    \A j \in 1..Len(emitted) :
        NonTransientAt(j) =>
            /\ j = Len(emitted)
            /\ pc = (IF emitted[j].etype = "stream_error" THEN "failed" ELSE "done")
            /\ ~ENABLED NextRetry

C21_Witness ==
    /\ pc = "failed" /\ attempt = 1
    /\ Len(emitted) = 3
    /\ IsRetryEvent(emitted[1])
    /\ emitted[2].kind = "data"
    /\ emitted[3].etype = "stream_error"

\* the caller has been given a transient transport error as the request's outcome
TransientSurfaced ==
    /\ pc = "failed"
    /\ IF mode = "stream"
       THEN emitted # << >> /\ Last(emitted).etype = "connection_failed"
       ELSE result.detail \in {"timeout", "network"}

\* C22: a transient transport error on an upstream call is retried up to
\* the retry limit and surfaced to the caller only after the retries are
\* exhausted, in non-streaming mode as well as in streaming mode.
C22_TransientSurfacedAfterRetries == TransientSurfaced => attempt = max_retries

\* the upstream response of the current attempt is open
UpstreamOpen == pc = "reading"

C23_WitnessReading ==
    /\ pc = "cancelled" /\ attempt = 0
    /\ Len(received) = 1 /\ Len(emitted) = 1 /\ emitted[1].kind = "data"

----------------------------------------------------------------------------
(* The shared connection pool *)

Returned(g) == getters[g].pc = "done"

\* C24: the connection pool is constructed lazily and exactly once: under
\* any interleaving of concurrent first callers of get_http_client at most
\* one client is constructed while none has been closed, and every caller
\* receives that same non-null client.
C24_ClientConstructedOnce ==
    /\ \A g \in Getters : Returned(g) => getters[g].got # NoClient
    /\ closes = 0 =>
           /\ constructed <= 1
           /\ constructed = 0 => http_client_pool = NoClient
           /\ \A g \in Getters : Returned(g) => getters[g].got = 1

C24_Witness ==
    /\ closes = 0 /\ constructed = 1
    /\ getters[1].pc = "waiting"
    /\ Returned(2) /\ getters[2].got = 1
    /\ Returned(3) /\ getters[3].got = 1

----------------------------------------------------------------------------
(* The credential pool *)

Names(creds) == [k \in DOMAIN creds |-> creds[k].name]

NoPin == Pinned(pool) = {}

\* C25: with a pool of three valid credentials, automatic rotation on, no pin
\* and batch size 1, successive next() calls return credentials 0, 1, 2 and
\* then 0 again: after each call the cursor has advanced by one modulo the
\* size of the pool.
C25_RoundRobin ==
    (pool.credentials = ThreeValid /\ pool.auto /\ NoPin /\ pool.batch = 1) =>
        /\ \A k \in 1..Len(handed) : handed[k].name = ThreeValid[((k - 1) % 3) + 1].name
        /\ pool.cursor = Len(handed) % 3

C25_Witness ==
    /\ pool.credentials = ThreeValid /\ pool.auto /\ NoPin /\ pool.batch = 1
    /\ Names(handed) = <<"c0", "c1", "c2", "c0">>
    /\ pool.cursor = 1

\* a call of next() has been made in this step
NextCalled == Len(handed') = Len(handed) + 1

\* toggleAutoRotation() has been called in this step
Toggled == pool'.auto # pool.auto

UsablePin == { i \in Pinned(pool) : Usable(At(pool, i)) }

SomeUsable == \E i \in Positions(pool) : Usable(At(pool, i))

\* C26: once a valid credential i is pinned by select(i), every next() returns
\* credential i whatever the cursor and the automatic-rotation flag are, and
\* the pin outlasts every next() and every toggleAutoRotation(); once the pin
\* is cleared next() follows the rotation again, from the cursor.
C26_PinOverridesRotation ==
    [][ /\ (NextCalled /\ UsablePin # {}) =>
              /\ \A i \in UsablePin : Last(handed') = Handed(At(pool, i))
              /\ pool' = pool
        /\ (NextCalled \/ Toggled) => Pinned(pool') = Pinned(pool)
        /\ (NextCalled /\ NoPin /\ SomeUsable) =>
              Last(handed') = Handed(At(pool, FirstUsableFrom(pool)))
      ]_vars

\* credential 1 is pinned and was returned twice, with the cursor on
\* credential 0 and automatic rotation switched off in between
C26_Witness ==
    /\ Names(pool.credentials) = <<"c0", "c1", "c2">>
    /\ \A i \in Positions(pool) : Usable(At(pool, i))
    /\ Pinned(pool) = {1} /\ pool.cursor = 0 /\ ~pool.auto
    /\ Names(handed) = <<"c1", "c1">>

\* the pin was cleared between two calls: credential 1, then the rotation
C26_WitnessCleared ==
    /\ Names(pool.credentials) = <<"c0", "c1", "c2">>
    /\ \A i \in Positions(pool) : Usable(At(pool, i))
    /\ NoPin /\ pool.cursor = 1 /\ pool.auto
    /\ Names(handed) = <<"c1", "c0">>

\* C27: at most one credential is manually pinned in every reachable state of
\* the pool, and select(j) while another credential is pinned leaves only j
\* pinned.
C27_AtMostOnePin ==
    /\ Cardinality(Pinned(pool)) <= 1
    /\ \A j \in Positions(pool) : Pinned(set_manual_credential(pool, j).pool) = {j}

\* credential 1 was pinned when the first request came, credential 2 is now
C27_Witness ==
    /\ Names(pool.credentials) = <<"c0", "c1", "c2">>
    /\ \A i \in Positions(pool) : Usable(At(pool, i))
    /\ pool.cursor = 0
    /\ Names(handed) = <<"c1">>
    /\ Pinned(pool) = {2}

\* C28: after any sequence of pool operations the rotation cursor is a
\* valid index into the credential list whenever the list is non-empty, and
\* when the list is empty next() reports that no credential is available.
C28_CursorValid ==
    /\ pool.credentials # << >> => pool.cursor \in Positions(pool)
    /\ pool.credentials = << >> => get_next_credential(pool).credential = None

\* the last credential was removed after the first request had been served
C28_Witness ==
    /\ pool.credentials = << >>
    /\ Names(handed) = <<"c0", "">>

\* the credential under the cursor was removed: the cursor is back at 0
C28_WitnessRemoved ==
    /\ Names(pool.credentials) = <<"c0", "c1">>
    /\ \A i \in Positions(pool) : Usable(At(pool, i))
    /\ pool.auto /\ NoPin /\ pool.cursor = 0
    /\ Names(handed) = <<"c0", "c1">>

Served == { r \in Requests : requests[r].pc # "start" }

\* the names k calls of next(), one after the other, are handed from pool P
RECURSIVE Sequential(_, _)
Sequential(P, k) ==
    IF k = 0 THEN << >>
    ELSE <<Handed(get_next_credential(P).credential).name>>
             \o Sequential(get_next_credential(P).pool, k - 1)

\* how many of the served requests hold the credential called name
HeldBy(name) == Cardinality({ r \in Served : requests[r].credential = name })

C30_WitnessSkipped ==
    /\ pool.credentials = OneValid
    /\ \A r \in Requests : requests[r] = [pc |-> "upstream", credential |-> "c1", status |-> 0]

----------------------------------------------------------------------------
(* Error responses *)

Failed == mode = "nonstream" /\ pc = "failed"

\* the status each kind of failure is answered with
StatusOf(error) ==
    IF error.detail = "timeout" THEN 504
    ELSE IF error.detail = "network" THEN 502
    ELSE IF error.detail = "request" THEN 500
    ELSE IF error.upstream = 401 THEN 401
    ELSE IF error.upstream = 429 THEN 429
    ELSE IF error.upstream >= 500 THEN 502
    ELSE error.status

\* C31: for a non-streaming request the failure kind determines the error:
\* an invalid body gives 400, upstream 401 gives 401, upstream 429 gives 429,
\* an upstream status of 500 or above gives 502, a timeout 504, a network
\* error 502, any other failure 500; a failed request carries an error
\* status and never a response body.
C31_ErrorStatusByKind ==
    /\ Failed => /\ DOMAIN result \in {{"status", "detail"}, {"status", "detail", "upstream"}}
                 /\ result.status = StatusOf(result)
                 /\ result.status >= 400
    /\ pc # "failed" => DOMAIN result \cap {"detail"} = {}
    /\ \A body \in Bodies :
           validate_request(body) =
               IF /\ body.parsed /\ body.object
                  /\ body.field = "list" /\ body.messages # << >>
                  /\ \A i \in DOMAIN body.messages : body.messages[i] = GoodMessage
               THEN 200 ELSE 400
    /\ \A r \in Requests : requests[r].pc = "rejected" => requests[r].status = 400

C31_Witness ==
    /\ Failed
    /\ result = [status |-> 502, detail |-> "api", upstream |-> 503]
    /\ requests[1].status = 400

\* C39: a request that fails validation (body not an object, missing or
\* empty message list, message without role or content) is answered 400
\* before the credential pool is consulted: cursor and pin stay as they
\* were, no credential is handed out and the request never goes upstream.
C39_InvalidRequestLeavesPool ==
    [][ /\ \A body \in Bodies :
               (\/ ~body.object
                \/ body.field = "absent" \/ body.messages = << >>
                \/ \E i \in DOMAIN body.messages : ~body.messages[i].role \/ ~body.messages[i].content)
                   => validate_request(body) = 400
        /\ \A r \in Requests :
               (requests[r].pc = "start" /\ requests'[r].status = 400) =>
                   /\ pool' = pool
                   /\ handed' = handed
                   /\ requests'[r].pc = "rejected"
        /\ \A r \in Requests : requests[r].status = 400 => requests'[r] = requests[r]
      ]_vars

\* the first request moved the cursor, credential 2 was pinned, and the
\* second request was turned away
C39_Witness ==
    /\ requests[1] = [pc |-> "upstream", credential |-> "c0", status |-> 0]
    /\ requests[2] = [pc |-> "rejected", credential |-> "", status |-> 400]
    /\ pool.cursor = 1 /\ Pinned(pool) = {2}
    /\ Len(handed) = 1

----------------------------------------------------------------------------
(* The terminator *)

\* the lines as the non-streaming loop parses them: the unterminated last
\* one is stripped first
ParsedLines ==
    [k \in 1..Len(received) |->
        IF received[k].tail THEN StripLine(received[k].line) ELSE received[k].line]

TerminatorReads == { k \in 1..Len(received) : ParsedLines[k] = Terminator }

\* the lines that arrived before the first terminator line
UpToTerminator ==
    IF TerminatorReads = {} THEN ParsedLines
    ELSE SubSeq(ParsedLines, 1, (CHOOSE k \in TerminatorReads : \A j \in TerminatorReads : k <= j) - 1)

\* C32: the terminator ends the stream in aggregation mode too: chunks that
\* arrive after the terminator line are not folded into the result, which is
\* the content, tool calls, finish reason and usage accumulated up to the
\* terminator.
C32_TerminatorEndsAggregation ==
    (mode = "nonstream" /\ pc = "done") =>
        result = finalize(AggregateLines(NewAggregator, UpToTerminator)).response

\* the streaming translator reads a complete line in this step
StreamReadsLine ==
    /\ mode = "stream"
    /\ Len(received') = Len(received) + 1
    /\ ~Last(received').tail

\* C33: the streaming translator stops only at the terminator line: every
\* data line that carries a decodable chunk and arrives before the
\* terminator is remapped and emitted, and processing goes on with the next
\* line, whatever the payload contains, the characters [DONE] included.
C33_StopsOnlyAtTerminator ==
    [][ (StreamReadsLine /\ Last(received').line # Terminator) =>
            /\ pc' = "reading"
            /\ Decodes(Last(received').line) =>
                   /\ Len(emitted') = Len(emitted) + 1
                   /\ Last(emitted') =
                          Data(convert_sse_chunk_to_openai_format(
                                   parse_sse_line(Last(received').line),
                                   tool_call_index_map).chunk,
                               Len(received'))
      ]_vars

----------------------------------------------------------------------------
(* The translator and the aggregator on the same tool-call stream *)

\* the aggregator after the first j fragments the translator was given
FoldedUpTo(j) == process_tool_calls(NewAggregator, SubSeq(InFrags, 1, j))

\* the entries fragment j was folded into: the new ones and the changed ones
FoldedInto(j) ==
    { id \in DOMAIN FoldedUpTo(j).tool_call_map :
          \/ id \notin DOMAIN FoldedUpTo(j - 1).tool_call_map
          \/ FoldedUpTo(j).tool_call_map[id] # FoldedUpTo(j - 1).tool_call_map[id]
          \/ InFrags[j].id = id }

\* the place of an entry in the first-seen order list, counted from 0
PlaceInOrder(order, id) == (CHOOSE k \in 1..Len(order) : order[k] = id) - 1

\* C34: streaming and aggregation attribute tool-call fragments to the same
\* call: a fragment the translator emits with position k is folded by the
\* aggregator into the k-th entry of its first-seen order list, also when it
\* has no identifier and follows an earlier identifier that reappeared.
C34_SameAttribution ==
    mode = "stream" =>
        \A j \in 1..Len(InFrags) :
            \A id \in FoldedInto(j) :
                j <= Len(OutFrags) =>
                    OutFrags[j].index = PlaceInOrder(FoldedUpTo(j).tool_call_order, id)

----------------------------------------------------------------------------
(* Upstream answers other than 200, in streaming mode *)

ApiErrors == { i \in 1..Len(emitted) : emitted[i].kind = "event" /\ emitted[i].etype = "api_error" }

\* C35: in streaming mode an upstream answer other than 200 is never retried
\* and is reported in-band: exactly one api_error event is emitted, no chunk
\* line and no terminator follow it, and the stream ends without a further
\* upstream attempt.
C35_ApiErrorEndsStream ==
    /\ Cardinality(ApiErrors) <= 1
    /\ ApiErrors # {} =>
           /\ mode = "stream"
           /\ ApiErrors = {Len(emitted)}
           /\ pc = "done"
           /\ Len(RetryEvents) = attempt
           /\ \A k \in 1..Len(received) : received[k].attempt < attempt
           /\ ~ENABLED NextRetry

\* the second attempt was answered with an error status
C35_Witness ==
    /\ mode = "stream" /\ pc = "done" /\ attempt = 1
    /\ Len(emitted) = 3
    /\ emitted[1].kind = "data"
    /\ IsRetryEvent(emitted[2])
    /\ ApiErrors = {3}

----------------------------------------------------------------------------
(* What a retried attempt sends the caller again *)

\* the place of read k among the reads of its attempt
PlaceInAttempt(k) ==
    Cardinality({ j \in 1..k : received[j].attempt = received[k].attempt })

\* emissions i and j forward the same line of the upstream response, read
\* in two attempts
SameChunkTwice(i, j) ==
    /\ emitted[i].kind \in {"data", "raw"} /\ emitted[j].kind \in {"data", "raw"}
    /\ emitted[i].attempt < emitted[j].attempt
    /\ PlaceInAttempt(emitted[i].src) = PlaceInAttempt(emitted[j].src)
    /\ received[emitted[i].src].line = received[emitted[j].src].line

\* C36: across the retries of one streaming request the caller never
\* receives the content of the same upstream chunk twice: lines emitted
\* before a mid-stream transient failure are not emitted again by the
\* retried attempt.
C36_NoChunkTwice ==
    mode = "stream" => \A i, j \in 1..Len(emitted) : ~SameChunkTwice(i, j)

----------------------------------------------------------------------------
(* Network reads *)

\* the generator run over the text read so far, taken as one single read
InOneRead == FeedChunk(Core(NoText, NoMap, << >>, FALSE, 0), ReceivedText)

\* C37: the translator's output depends only on the upstream text, not on
\* how the text is split into network reads: whatever the splitting, what
\* has been emitted is what one read of the whole text gives, and a line is
\* emitted only once it is complete or the upstream has ended.
C37_SplitIndependent ==
    (mode = "stream" /\ ApiErrors = {}) =>
        /\ pc = "reading" =>
               /\ emitted = InOneRead.out
               /\ buffer = InOneRead.buffer
               /\ tool_call_index_map = InOneRead.map
               /\ Len(emitted) <= Count(ReceivedText, NL)
               /\ ~Contains(buffer, NL)
        /\ pc = "done" =>
               emitted = IF InOneRead.stop THEN InOneRead.out ELSE EndOfBody(InOneRead).out

\* a data line arrived in three reads, the prefix, the payload and the line
\* feed each on its own, and was emitted once it was complete
C37_Witness ==
    /\ mode = "stream" /\ pc = "reading"
    /\ Len(received) = 4
    /\ received[1].chunk = <<"data: ">>
    /\ received[2].chunk = <<ChunkA>>
    /\ received[3].chunk = <<NL>>
    /\ received[4].chunk = <<"data: ">>
    /\ Len(emitted) = 1 /\ emitted[1].kind = "data"
    /\ buffer = <<"data: ">>

----------------------------------------------------------------------------
(* Argument repair on text that is already valid *)

\* the text is one syntactically valid object
ValidObject(text) == ValidJson(text) /\ json_loads(text).val.t = "obj"

\* {"a":"}{}"}
BracesInString ==
    <<"{", "\"", "a", "\"", ":", "\"", "}", "{", "}", "\"", "}">>

\* C38: argument repair preserves input that is already valid: for every
\* argument text that is one syntactically valid object, repair returns text
\* denoting the same object (also when the object contains the characters
\* `}{` inside a string value), and therefore repair(repair(x)) denotes the
\* same value as repair(x) for every x.
C38_RepairPreservesValid ==
    Repaired =>
        /\ ValidObject(ArgText) =>
               /\ json_loads(RepairedText).ok
               /\ json_loads(RepairedText).val = json_loads(ArgText).val
        /\ json_loads(validate_and_fix_tool_call_args(RepairedText)).val
               = json_loads(RepairedText).val

\* the case outside strings: a valid object with no brace inside a string
\* is returned as it is
C38_ValidKept ==
    /\ Repaired /\ ValidObject(ArgText) /\ RepairedText = Strip(ArgText)
    /\ CountCloseOpen(ArgText) = 0

\* the object {"a":"}{}"} comes back as the empty object
C38_BracesInStringLost ==
    Repaired /\ ArgText = BracesInString /\ RepairedText = <<"{", "}">>

====
